---- MODULE Spec2Model ----
(***************************************************************************)
(* A model of the trampolined interpreter of src/src/Fiber.ts.             *)
(*                                                                         *)
(* A description (RIO node) is a record with a tag.  The user functions    *)
(* held by the nodes (step functions, flatMap continuations, catch         *)
(* handlers) are opaque: a node carries the identity of its function, and  *)
(* what an invocation does (return a value / an effect, or raise) is an    *)
(* input chosen when the function is invoked.                              *)
(*                                                                         *)
(* Several runs share one JavaScript thread.  `thread` is the run whose    *)
(* code is executing (0: none); an async function runs without             *)
(* interruption until it awaits or returns.                                *)
(***************************************************************************)
EXTENDS Integers, Sequences, FiniteSets, TLC

\* ---- bounds ----
MaxVal   == 1   \* success values are 1..MaxVal
MaxErr   == 2   \* error values are 11..10+MaxErr
MaxDepth == 3   \* nesting depth of FlatMap/Catch in a root description
MaxCalls == 1   \* invocations per run that may return a nested description
NumRuns  == 2   \* runs (each on its own Fiber instance)
MaxChain == 9   \* longest chain of flatMap(incM)
MaxBuild == 2   \* combinator calls applied to a leaf when building a root
MaxElems == 3   \* elements of the array given to a static combinator
MaxDelay == 2   \* longest delay given to timeout, in milliseconds

Values == 1..MaxVal
Errors == 11..(10 + MaxErr)
\* every flatMap/catch of a root description has a function of its own,
\* identified by the nesting level of its node
FnIds  == 1..MaxDepth
Runs   == 1..NumRuns
Fibers == 1..NumRuns

\* step functions, and the functions of descriptions created while running,
\* are other closures
FreshFn == 0

\* the function incM of the tests has an identity of its own
IncM == -1

\* ---- description nodes (classes Success, Failure, ... of RIO) ----
Success(v)       == [tag |-> "Success", value |-> v]
Failure(e)       == [tag |-> "Failure", error |-> e]
Done(v)          == [tag |-> "Done", value |-> v]
FromFunction(f)  == [tag |-> "FromFunction", fn |-> f]
FromPromise(f)   == [tag |-> "FromPromise", fn |-> f]
FlatMap(eff, f)  == [tag |-> "FlatMap", effect |-> eff, fn |-> f]
Catch(eff, f)    == [tag |-> "Catch", effect |-> eff, fn |-> f]

\* the closure x => success(fn(x)) that map builds around fn
Mapped(fn) == 100 + fn

\* a variant that wraps a Failure node like any other node
flatMapWraps(this, fn) == FlatMap(this, fn)

\* the combinators: flatMap builds a FlatMap node around this, catch a Catch;
\* a Failure node returns itself from flatMap and map
flatMap(this, fn) ==
  IF this.tag = "Failure" THEN this ELSE FlatMap(this, fn)

map(this, fn) ==
  IF this.tag = "Failure" THEN this ELSE FlatMap(this, Mapped(fn))

catch(this, fn) == Catch(this, fn)

Leaves ==
  {Success(v) : v \in Values} \cup {Failure(e) : e \in Errors}
    \cup {FromFunction(FreshFn), FromPromise(FreshFn)}

\* descriptions of depth <= d; `fresh` tells whether they are created while
\* running
RECURSIVE Effects(_, _)
Effects(d, fresh) ==
  IF d = 0 THEN Leaves
  ELSE LET sub == Effects(d - 1, fresh)
           f == IF fresh THEN FreshFn ELSE d IN
       sub \cup {flatMap(e, f) : e \in sub} \cup {catch(e, f) : e \in sub}

\* ---- completions of a function invocation ----
Return(x) == [kind |-> "return", result |-> x]
Throw(x)  == [kind |-> "throw", error |-> x]
NoCall    == [kind |-> "nocall"]

Throws == {Throw(x) : x \in Errors}

\* ---- continuation stack (Fiber.stack); the top is the last element ----
\* A frame is the pushed FlatMap/Catch node; `owner` records the run that
\* pushed it.
Frame(node, r) == [tag |-> node.tag, fn |-> node.fn, owner |-> r]
NoFrame == [tag |-> "None"]

Top(s)  == s[Len(s)]
Rest(s) == SubSeq(s, 1, Len(s) - 1)

\* RIO.run hands the description to a fresh interpreter instance.
FiberOf(r) == r

\* a variant with one array shared by all instances (a static field)
StackOfShared(fiber) == 1

\* `stack` is an instance field: every Fiber has its own array.
StackOf(fiber) == fiber

\* a variant that takes whatever frame is on top
popContinuationTop(s) ==
  IF s = <<>> THEN [stack |-> s, cont |-> NoFrame, popped |-> <<>>]
  ELSE [stack |-> Rest(s), cont |-> Top(s), popped |-> <<Top(s)>>]

\* a variant that stops at a Catch frame and reports no continuation
popContinuationStopsAtCatch(s) ==
  IF s = <<>> \/ Top(s).tag = "Catch"
  THEN [stack |-> s, cont |-> NoFrame, popped |-> <<>>]
  ELSE [stack |-> Rest(s), cont |-> Top(s), popped |-> <<Top(s)>>]

\* a variant that passes over the Catch frames and leaves them on the stack
RECURSIVE popContinuationKeepsCatch(_)
popContinuationKeepsCatch(s) ==
  IF s = <<>> THEN [stack |-> s, cont |-> NoFrame, popped |-> <<>>]
  ELSE IF Top(s).tag = "Catch"
       THEN LET p == popContinuationKeepsCatch(Rest(s)) IN
            [p EXCEPT !.stack = Append(@, Top(s))]
       ELSE [stack |-> Rest(s), cont |-> Top(s), popped |-> <<Top(s)>>]

\* popContinuation: pop until a frame that is not a Catch (or undefined).
RECURSIVE popContinuation(_)
popContinuation(s) ==
  IF s = <<>> THEN [stack |-> s, cont |-> NoFrame, popped |-> <<>>]
  ELSE IF Top(s).tag = "Catch"
       THEN LET p == popContinuation(Rest(s)) IN
            [p EXCEPT !.popped = <<Top(s)>> \o @]
       ELSE [stack |-> Rest(s), cont |-> Top(s), popped |-> <<Top(s)>>]

\* a variant that takes whatever frame is on top
unwindStackTop(s) ==
  IF s = <<>> THEN [stack |-> s, cont |-> NoFrame, popped |-> <<>>]
  ELSE [stack |-> Rest(s), cont |-> Top(s), popped |-> <<Top(s)>>]

\* a variant that finds the Catch frame but leaves it on the stack
RECURSIVE unwindStackKeep(_)
unwindStackKeep(s) ==
  IF s = <<>> THEN [stack |-> s, cont |-> NoFrame, popped |-> <<>>]
  ELSE IF Top(s).tag # "Catch"
       THEN LET u == unwindStackKeep(Rest(s)) IN
            [u EXCEPT !.popped = <<Top(s)>> \o @]
       ELSE [stack |-> s, cont |-> Top(s), popped |-> <<>>]

\* a variant that removes the Catch frame and leaves the frames above it
unwindStackLeavesAbove(s) ==
  IF ~(\E i \in 1..Len(s) : s[i].tag = "Catch")
  THEN [stack |-> <<>>, cont |-> NoFrame,
        popped |-> [k \in 1..Len(s) |-> s[Len(s) + 1 - k]]]
  ELSE LET i == CHOOSE j \in 1..Len(s) :
                  s[j].tag = "Catch" /\ \A k \in (j + 1)..Len(s) : s[k].tag # "Catch"
       IN [stack |-> SubSeq(s, 1, i - 1) \o SubSeq(s, i + 1, Len(s)),
           cont |-> s[i], popped |-> <<s[i]>>]

\* unwindStack: pop until a Catch frame (or undefined).
RECURSIVE unwindStack(_)
unwindStack(s) ==
  IF s = <<>> THEN [stack |-> s, cont |-> NoFrame, popped |-> <<>>]
  ELSE IF Top(s).tag # "Catch"
       THEN LET u == unwindStack(Rest(s)) IN
            [u EXCEPT !.popped = <<Top(s)>> \o @]
       ELSE [stack |-> Rest(s), cont |-> Top(s), popped |-> <<Top(s)>>]

\* a variant that pushes the node twice
pushContinuationTwice(s, node, r) ==
  [stack |-> Append(Append(s, Frame(node, r)), Frame(node, r)),
   comp |-> Return(node.effect), popped |-> <<>>, calls |-> <<>>]

\* pushContinuation: push the node, continue with its inner effect.
pushContinuation(s, node, r) ==
  [stack |-> Append(s, Frame(node, r)), comp |-> Return(node.effect),
   popped |-> <<>>, calls |-> <<>>]

Call(frame, arg, out) ==
  [role |-> frame.tag, fn |-> frame.fn, arg |-> arg, comp |-> out]

\* a variant that leaves the frames it passed over on the stack at the end
runContinuationKeeps(s, value, out) ==
  LET p == popContinuation(s) IN
  IF p.cont = NoFrame
  THEN [stack |-> s, comp |-> Return(Done(value)),
        popped |-> <<>>, calls |-> <<>>]
  ELSE [stack |-> p.stack, comp |-> out,
        popped |-> p.popped, calls |-> <<Call(p.cont, value, out)>>]

\* runContinuation(value); `out` is what continuation.fn(value) does.
runContinuation(s, value, out) ==
  LET p == popContinuation(s) IN
  IF p.cont = NoFrame
  THEN [stack |-> p.stack, comp |-> Return(Done(value)),
        popped |-> p.popped, calls |-> <<>>]
  ELSE [stack |-> p.stack, comp |-> out,
        popped |-> p.popped, calls |-> <<Call(p.cont, value, out)>>]

\* a variant that rejects with a wrapper around the error
handleErrorWrapped(s, error, out) ==
  LET u == unwindStack(s) IN
  IF u.cont # NoFrame
  THEN [stack |-> u.stack, comp |-> out,
        popped |-> u.popped, calls |-> <<Call(u.cont, error, out)>>]
  ELSE [stack |-> u.stack, comp |-> Throw(100 + error),
        popped |-> u.popped, calls |-> <<>>]

\* a variant that keeps the first error when the handler returns a Failure
handleErrorKeepsFirst(s, error, out) ==
  LET u == unwindStack(s) IN
  IF u.cont # NoFrame
  THEN [stack |-> u.stack,
        comp |-> IF out.kind = "return" /\ out.result.tag = "Failure"
                 THEN Return(Failure(error)) ELSE out,
        popped |-> u.popped, calls |-> <<Call(u.cont, error, out)>>]
  ELSE [stack |-> u.stack, comp |-> Throw(error),
        popped |-> u.popped, calls |-> <<>>]

\* a variant that goes round the loop again when no Catch frame is found
handleErrorRetries(s, error, out) ==
  LET u == unwindStack(s) IN
  IF u.cont # NoFrame
  THEN [stack |-> u.stack, comp |-> out,
        popped |-> u.popped, calls |-> <<Call(u.cont, error, out)>>]
  ELSE [stack |-> u.stack, comp |-> Return(Failure(error)),
        popped |-> u.popped, calls |-> <<>>]

\* handleError(error); `out` is what errorHandler.fn(error) does.
handleError(s, error, out) ==
  LET u == unwindStack(s) IN
  IF u.cont # NoFrame
  THEN [stack |-> u.stack, comp |-> out,
        popped |-> u.popped, calls |-> <<Call(u.cont, error, out)>>]
  ELSE [stack |-> u.stack, comp |-> Throw(error),
        popped |-> u.popped, calls |-> <<>>]

\* a variant without the try block
TryCatchMissing(comp) == comp

\* try { current = <body> } catch (error) { current = new Failure(error) }
TryCatch(comp) ==
  IF comp.kind = "throw" THEN Return(Failure(comp.error)) ELSE comp

\* variants: no await at all / an await in the FromFunction case as well
AwaitsNowhere(tag) == FALSE

AwaitsAtEveryStep(tag) == tag \in {"FromPromise", "FromFunction"}

\* The one place where run awaits: case Tag.FromPromise.
AwaitsAt(tag) == tag = "FromPromise"

\* ---- state ----
VARIABLES
  root,     \* root[r]: the description handed to run r
  env,      \* env[r]: the environment handed to run r
  status,   \* "idle", "running", "suspended", "resolved", "rejected"
  current,  \* the local `current` of run r
  stack,    \* stack[i]: the array behind the stack field of Fiber i
  awaited,  \* what run r is awaiting while suspended
  result,   \* the value or error run r settled with (0: none)
  thread,   \* the run whose code is executing (0: none)
  fuel,     \* fuel[r]: invocations of run r that may still return a nested
            \* description (afterwards functions return leaves or raise)
  rescued,  \* rescued[r][f]: invocations of root catch handler f by run r
  ev,       \* the last transition: who, which case, frames popped, calls
  \* -- a run of one promise-based combinator of RIO --
  op,       \* the combinator and its arguments
  pc,       \* where its async function stands
  idx,      \* index of the element the loop is at
  bst,      \* bst[i]: what became of the effect of element/branch i
  acc,      \* the values collected so far
  outcome,  \* the promise returned by run
  trace     \* the user functions invoked and effects started, in order

fvars == <<root, env, status, current, stack, awaited, result, thread, fuel,
           rescued, ev>>

pvars == <<op, pc, idx, bst, acc, outcome, trace>>

vars == <<fvars, pvars>>

Pending == [kind |-> "pending"]

\* no combinator is being run
NoOp == [kind |-> "none"]

RioIdle ==
  /\ op = NoOp
  /\ pc = "idle"
  /\ idx = 0
  /\ bst = <<>>
  /\ acc = <<>>
  /\ outcome = Pending
  /\ trace = <<>>

NoAwait    == [kind |-> "none"]
Promise    == [kind |-> "promise"]
Plain(v)   == [kind |-> "value", value |-> v]

Resolve(v) == [kind |-> "resolve", value |-> v]
Reject(x)  == [kind |-> "reject", error |-> x]

NoEvent == [run |-> 0, kind |-> "none", popped |-> <<>>, calls |-> <<>>,
            settle |-> NoCall]

StackSlot(r) == StackOf(FiberOf(r))
Stack(r)     == stack[StackSlot(r)]

\* what a continuation or handler invoked by run r may do
FnResults(r) ==
  Throws \cup
  {Return(e) : e \in Effects(IF fuel[r] > 0 THEN 1 ELSE 0, TRUE)}

\* what a step function may do: FromFunction returns a value, FromPromise
\* returns a promise; both may raise
StepResults(tag) ==
  Throws \cup (IF tag = "FromPromise" THEN {Return(Promise)}
               ELSE {Return(Plain(v)) : v \in Values})

\* a promise that is going to reject with x
Rejecting(x) == [kind |-> "rejecting", error |-> x]

\* how an awaited thing settles
Settlements(a) ==
  IF a.kind = "promise"
  THEN {Resolve(v) : v \in Values} \cup {Reject(x) : x \in Errors}
  ELSE IF a.kind = "rejecting" THEN {Reject(a.error)}
  ELSE {Resolve(a.value)}

\* ---- functions whose behaviour is fixed by their identity ----
\* (used where two evaluations of one description are compared)
ScriptErrors == {11, 12}

\* the effects such a continuation or handler may return
ScriptedEffects ==
  <<Success(1), Failure(11), Failure(12), FromFunction(-31)>>

Returning(k)   == -10 - k          \* () => ScriptedEffects[k]
Raising(x)     == -20 - (x - 10)   \* () => { throw x }
StepReturns(v) == -30 - v          \* (env) => v, or a promise of v
StepRaises(x)  == -40 - (x - 10)   \* (env) => { throw x }
StepRejects(x) == -50 - (x - 10)   \* (env) => Promise.reject(x)

IsScripted(fn) == fn <= -10

\* what the continuation or handler fn does
Scripted(fn) ==
  IF fn > -20 THEN Return(ScriptedEffects[-10 - fn])
  ELSE Throw(10 + (-20 - fn))

\* what the step function fn of a FromFunction / FromPromise node does
StepScript(fn) ==
  IF fn > -40 THEN Return(Plain(-30 - fn))
  ELSE IF fn > -50 THEN Throw(10 + (-40 - fn))
  ELSE Return(Rejecting(10 + (-50 - fn)))

\* what the step function of the current node of run r may do
StepOuts(r, tag) ==
  IF IsScripted(current[r].fn) THEN {StepScript(current[r].fn)}
  ELSE StepResults(tag)

\* const incM = (n) => RIO.success(n + 1)
incM(n) == Success(n + 1)

\* what the continuation about to be called does with `value`: incM is known,
\* any other function is free
ContOuts(r, value) ==
  LET cont == popContinuation(Stack(r)).cont IN
  IF cont = NoFrame THEN {NoCall}
  ELSE IF cont.fn = IncM THEN {Return(incM(value))}
  ELSE IF IsScripted(cont.fn) THEN {Scripted(cont.fn)}
  ELSE IF cont.fn >= Mapped(0)
       THEN Throws \cup {Return(Success(v)) : v \in Values}
  ELSE FnResults(r)
HandlerOuts(r) ==
  LET cont == unwindStack(Stack(r)).cont IN
  IF cont = NoFrame THEN {NoCall}
  ELSE IF IsScripted(cont.fn) THEN {Scripted(cont.fn)}
  ELSE FnResults(r)

TypeRoots(d) == Effects(d, FALSE)

InitCommon ==
  /\ env = [r \in Runs |-> 20 + r]
  /\ status = [r \in Runs |-> "idle"]
  /\ current = root
  /\ stack = [i \in Fibers |-> <<>>]
  /\ awaited = [r \in Runs |-> NoAwait]
  /\ result = [r \in Runs |-> 0]
  /\ thread = 0
  /\ rescued = [r \in Runs |-> [f \in FnIds |-> 0]]
  /\ ev = NoEvent

\* one run over every description up to MaxDepth; the others are trivial
Init ==
  /\ root \in {[r \in Runs |-> IF r = 1 THEN e ELSE FromPromise(FreshFn)] :
                 e \in TypeRoots(MaxDepth)}
  /\ fuel = [r \in Runs |-> MaxCalls]
  /\ InitCommon
  /\ RioIdle

\* descriptions of the concurrent runs: two sequential steps around a leaf
ConcLeaves == {FromPromise(FreshFn), Success(1)}
ConcRoots ==
  {flatMap(flatMap(l, 1), 2) : l \in ConcLeaves}
    \cup {catch(flatMap(FromPromise(FreshFn), 1), 2)}

\* several runs at once, each on its own Fiber
InitConc ==
  /\ root \in [Runs -> ConcRoots]
  /\ fuel = [r \in Runs |-> 0]
  /\ InitCommon
  /\ RioIdle

Max(a, b) == IF a > b THEN a ELSE b

IsRescue(c, f) == c.role = "Catch" /\ c.fn = f

\* bookkeeping of the invocations made in one transition
Count(r, calls) ==
  /\ fuel' = [fuel EXCEPT ![r] = Max(@ - Len(calls), 0)]
  /\ rescued' = [rescued EXCEPT ![r] =
       [f \in FnIds |-> @[f] + Len(SelectSeq(calls, LAMBDA c : IsRescue(c, f)))]]

\* the invocations of a run are written to the trace when a log is kept
LogOp == [kind |-> "log"]

\* (run 1 is logged in trace, the run it is compared with in acc)
Logged(r, calls) ==
  IF op = LogOp
  THEN /\ IF r = 1 THEN trace' = trace \o calls /\ UNCHANGED acc
                   ELSE acc' = acc \o calls /\ UNCHANGED trace
       /\ UNCHANGED <<op, pc, idx, bst, outcome>>
  ELSE UNCHANGED pvars

\* one iteration of the loop of run settles `current`, or ends the run
Iterate(r, kind, res, precalls, st) ==
  /\ stack' = [stack EXCEPT ![StackSlot(r)] = res.stack]
  /\ Count(r, precalls \o res.calls)
  /\ ev' = [run |-> r, kind |-> kind, popped |-> res.popped,
            calls |-> precalls \o res.calls, settle |-> st]
  /\ IF res.comp.kind = "throw"
     THEN /\ status' = [status EXCEPT ![r] = "rejected"]
          /\ result' = [result EXCEPT ![r] = res.comp.error]
          /\ thread' = 0
          /\ UNCHANGED current
     ELSE /\ current' = [current EXCEPT ![r] = res.comp.result]
          /\ status' = [status EXCEPT ![r] = "running"]
          /\ thread' = r
          /\ UNCHANGED result
  /\ awaited' = [awaited EXCEPT ![r] = NoAwait]
  /\ UNCHANGED <<root, env>>
  /\ Logged(r, precalls \o res.calls)

\* run(effect, env) is called: let current = effect
Start(r) ==
  /\ thread = 0
  /\ status[r] = "idle"
  /\ status' = [status EXCEPT ![r] = "running"]
  /\ current' = [current EXCEPT ![r] = root[r]]
  /\ thread' = r
  /\ ev' = [NoEvent EXCEPT !.run = r, !.kind = "Start"]
  /\ UNCHANGED <<root, env, stack, awaited, result, fuel, rescued, pvars>>

Running(r) == thread = r /\ status[r] = "running"

\* case Tag.Done: return eff.value
StepDone(r) ==
  /\ Running(r)
  /\ current[r].tag = "Done"
  /\ status' = [status EXCEPT ![r] = "resolved"]
  /\ result' = [result EXCEPT ![r] = current[r].value]
  /\ thread' = 0
  /\ ev' = [NoEvent EXCEPT !.run = r, !.kind = "Done"]
  /\ UNCHANGED <<root, env, current, stack, awaited, fuel, rescued, pvars>>

\* case Tag.Success: try { current = runContinuation(value) } catch ...
StepSuccess(r) ==
  /\ Running(r)
  /\ current[r].tag = "Success"
  /\ \E out \in ContOuts(r, current[r].value) :
       LET rc == runContinuation(Stack(r), current[r].value, out) IN
       Iterate(r, "Success", [rc EXCEPT !.comp = TryCatch(rc.comp)], <<>>,
               NoCall)

\* case Tag.Failure: current = handleError(error)   (no try around it)
StepFailure(r) ==
  /\ Running(r)
  /\ current[r].tag = "Failure"
  /\ \E out \in HandlerOuts(r) :
       Iterate(r, "Failure", handleError(Stack(r), current[r].error, out),
               <<>>, NoCall)

\* case Tag.FlatMap: current = pushContinuation(eff)
StepFlatMap(r) ==
  /\ Running(r)
  /\ current[r].tag = "FlatMap"
  /\ Iterate(r, "FlatMap", pushContinuation(Stack(r), current[r], r), <<>>,
             NoCall)

\* case Tag.Catch: current = pushContinuation(eff)
StepCatch(r) ==
  /\ Running(r)
  /\ current[r].tag = "Catch"
  /\ Iterate(r, "Catch", pushContinuation(Stack(r), current[r], r), <<>>,
             NoCall)

NoPop(r, comp) ==
  [stack |-> Stack(r), comp |-> comp, popped |-> <<>>, calls |-> <<>>]

ValueOf(x) == IF x.kind = "value" THEN x.value ELSE x

\* case Tag.FromFunction: try { current = runContinuation(eff.fn(env)) }
\* case Tag.FromPromise:  try { current = runContinuation(await eff.fn(env)) }
\* The two cases differ only in the await.
StepFn(r, tag) ==
  /\ Running(r)
  /\ current[r].tag = tag
  /\ \E out1 \in StepOuts(r, tag) :
       LET call == [role |-> tag, fn |-> current[r].fn, arg |-> env[r],
                    comp |-> out1] IN
       IF out1.kind = "throw"
       THEN Iterate(r, tag, NoPop(r, TryCatch(out1)), <<call>>, NoCall)
       ELSE IF AwaitsAt(tag)
       THEN /\ awaited' = [awaited EXCEPT ![r] = out1.result]
            /\ status' = [status EXCEPT ![r] = "suspended"]
            /\ thread' = 0
            /\ Count(r, <<call>>)
            /\ ev' = [run |-> r, kind |-> tag, popped |-> <<>>,
                      calls |-> <<call>>, settle |-> NoCall]
            /\ UNCHANGED <<root, env, current, stack, result>>
            /\ Logged(r, <<call>>)
       ELSE \E out2 \in ContOuts(r, ValueOf(out1.result)) :
              LET rc == runContinuation(Stack(r), ValueOf(out1.result), out2)
              IN Iterate(r, tag, [rc EXCEPT !.comp = TryCatch(rc.comp)],
                         <<call>>, NoCall)

StepFromFunction(r) == StepFn(r, "FromFunction")

StepFromPromise(r) == StepFn(r, "FromPromise")

\* The awaited promise has settled and the run is resumed inside the try
\* block: a rejection is caught, a value goes to runContinuation.
Resume(r) ==
  /\ thread = 0
  /\ status[r] = "suspended"
  /\ \E st \in Settlements(awaited[r]) :
       IF st.kind = "reject"
       THEN Iterate(r, "Resume", NoPop(r, TryCatch(Throw(st.error))), <<>>,
                    st)
       ELSE \E out2 \in ContOuts(r, st.value) :
              LET rc == runContinuation(Stack(r), st.value, out2) IN
              Iterate(r, "Resume", [rc EXCEPT !.comp = TryCatch(rc.comp)],
                      <<>>, st)

Step(r) ==
  \/ Start(r)
  \/ StepDone(r)
  \/ StepSuccess(r)
  \/ StepFailure(r)
  \/ StepFlatMap(r)
  \/ StepCatch(r)
  \/ StepFromFunction(r)
  \/ StepFromPromise(r)
  \/ Resume(r)

\* a single run in isolation
Next == Step(1)

Spec == Init /\ [][Next]_vars

\* every run; the thread is handed over only when no run is executing
NextConc == \E r \in Runs : Step(r)

SpecConc == InitConc /\ [][NextConc]_vars

\* RIO.success(0).flatMap(incM).flatMap(incM)...  (n times)
RECURSIVE IncChain(_)
IncChain(n) ==
  IF n = 0 THEN Success(0) ELSE flatMap(IncChain(n - 1), IncM)

\* the number of flatMap nodes around the innermost effect
RECURSIVE ChainLen(_)
ChainLen(eff) ==
  IF eff.tag = "FlatMap" THEN 1 + ChainLen(eff.effect) ELSE 0

\* one run over a chain of every length up to MaxChain
InitChain ==
  /\ root \in {[r \in Runs |-> IF r = 1 THEN IncChain(n)
                               ELSE FromPromise(FreshFn)] : n \in 0..MaxChain}
  /\ fuel = [r \in Runs |-> 0]
  /\ InitCommon
  /\ RioIdle

\* the cases of the loop a chain goes through
NextChain ==
  \/ Start(1)
  \/ StepFlatMap(1)
  \/ StepSuccess(1)
  \/ StepDone(1)

\* the while loop of run is synchronous: once called it keeps iterating
Loop(r) == Running(r) /\ NextChain

SpecChain == InitChain /\ [][NextChain]_vars /\ WF_vars(Loop(1))

\* a leaf with combinators called on it one after the other; the k-th call
\* is given the function k
Apply(comb, this, fn) ==
  IF comb = "map" THEN map(this, fn) ELSE flatMap(this, fn)

RECURSIVE Build(_, _)
Build(base, calls) ==
  IF calls = <<>> THEN base
  ELSE Apply(calls[Len(calls)],
             Build(base, SubSeq(calls, 1, Len(calls) - 1)), Len(calls))

CallSeqs == UNION {[1..n -> {"flatMap", "map"}] : n \in 0..MaxBuild}

\* one run over what the calls return
InitBuild ==
  /\ op \in {[kind |-> "build", base |-> b, calls |-> cs] :
               b \in Leaves, cs \in CallSeqs}
  /\ root = [r \in Runs |-> IF r = 1 THEN Build(op.base, op.calls)
                             ELSE FromPromise(FreshFn)]
  /\ fuel = [r \in Runs |-> 0]
  /\ InitCommon
  /\ pc = "idle" /\ idx = 0 /\ bst = <<>> /\ acc = <<>>
  /\ outcome = Pending /\ trace = <<>>

NextBuild ==
  \/ Start(1)
  \/ StepDone(1)
  \/ StepSuccess(1)
  \/ StepFailure(1)
  \/ StepFlatMap(1)
  \/ StepFromFunction(1)
  \/ StepFromPromise(1)
  \/ Resume(1)

SpecBuild == InitBuild /\ [][NextBuild]_vars

\* ---- the static combinators of the promise-based RIO ----

\* the errors of this layer are objects
Err(x) == [name |-> "Error", id |-> x]

\* what the effect of element i may resolve with or fail with, and what the
\* function called for element i may raise: the elements differ
ValuesOf(i) == {10 * i + v : v \in 1..(MaxVal + 1)}
ErrorsOf(i) == {Err(10 * i + x) : x \in 1..MaxErr}

\* the promise of the effect of one element
Unstarted   == [kind |-> "unstarted"]
Started     == [kind |-> "running"]
Resolved(v) == [kind |-> "resolved", value |-> v]
Rejected(x) == [kind |-> "rejected", error |-> x]

Settled(p) == p.kind \in {"resolved", "rejected"}

\* entries of the trace
CallFn(i, out) == [what |-> "fn", i |-> i, out |-> out]
StartEff(i)    == [what |-> "start", i |-> i]
SettleEv(i)    == [what |-> "settle", i |-> i]

\* fn(value) for element i returns an effect or raises; identity (allSeries,
\* all) returns its argument
FnOuts(kind, i) ==
  {Return("effect")} \cup
    (IF kind \in {"mapSeries", "map"} THEN {Throw(x) : x \in ErrorsOf(i)}
     ELSE {})

\* effect.#unsafeRun(env) returns a promise, or raises when the wrapped
\* function raises before there is a promise
UnsafeRunOuts(i) == {Return(Started)} \cup {Throw(x) : x \in ErrorsOf(i)}

\* a variant of await that goes on with undefined after a rejection
AwaitSwallows(p) ==
  IF p.kind = "rejected" THEN Return(0) ELSE Return(p.value)

\* await p, for a settled p: its value, or its error raised
Await(p) ==
  IF p.kind = "rejected" THEN Throw(p.error) ELSE Return(p.value)

\* an async function returns (its promise resolves) or raises (it rejects)
Settle(comp) ==
  IF comp.kind = "throw" THEN Reject(comp.error) ELSE Resolve(comp.result)

\* mapSeries, from the head of the loop at element i with `res` collected:
\* fnOut is what fn(value) does, runOut what #unsafeRun(env) of the effect
\* does.  The function stops at the await or ends.
SeriesLoop(i, res, fnOut, runOut) ==
  /\ acc' = res
  /\ idx' = i
  /\ IF i > op.n
     THEN /\ outcome' = Settle(Return(res))
          /\ pc' = "done"
          /\ UNCHANGED <<bst, trace>>
     ELSE IF fnOut.kind = "throw"
     THEN /\ outcome' = Settle(fnOut)
          /\ pc' = "done"
          /\ trace' = Append(trace, CallFn(i, fnOut))
          /\ UNCHANGED bst
     ELSE IF runOut.kind = "throw"
     THEN /\ outcome' = Settle(runOut)
          /\ pc' = "done"
          /\ trace' = trace \o <<CallFn(i, fnOut), StartEff(i)>>
          /\ bst' = [bst EXCEPT ![i] = Rejected(runOut.error)]
     ELSE /\ pc' = "await"
          /\ trace' = trace \o <<CallFn(i, fnOut), StartEff(i)>>
          /\ bst' = [bst EXCEPT ![i] = runOut.result]
          /\ UNCHANGED outcome

SeriesChoice(i, res) ==
  \E fnOut \in FnOuts(op.kind, i), runOut \in UnsafeRunOuts(i) :
    SeriesLoop(i, res, fnOut, runOut)

\* run(env) of RIO.mapSeries(values, fn) / RIO.allSeries(effects)
RunSeries ==
  /\ pc = "idle"
  /\ op.kind \in {"mapSeries", "allSeries"}
  /\ SeriesChoice(1, <<>>)
  /\ UNCHANGED <<op, fvars>>

\* a variant that does not keep the argument
TimeoutErrorBlank(timeout) == [name |-> "TimeoutError", timeout |-> 0]

\* new TimeoutError(milliseconds): the field timeout holds the argument
TimeoutError(timeout) == [name |-> "TimeoutError", timeout |-> timeout]

AggregateError(errors) == [name |-> "AggregateError", errors |-> errors]

\* how the promise of branch i may settle; the second branch of timeout is
\* the delay followed by Promise.reject(new TimeoutError(milliseconds))
BranchOuts(i) ==
  IF op.kind = "timeout" /\ i = 2 THEN {Rejected(TimeoutError(op.ms))}
  ELSE IF op.kind = "delay" /\ i = 1 THEN {Resolved(0)}
  ELSE {Resolved(v) : v \in ValuesOf(i)}
         \cup {Rejected(x) : x \in ErrorsOf(i)}

\* a variant in which the latest settlement overwrites the promise
settleAgain(promise, st) == st

\* a promise keeps its first settlement
settleOnce(promise, st) == IF promise = Pending THEN st ELSE promise

\* a variant that fills the array in the order of completion
storeFirstFree(values, i, v) ==
  LET free == {j \in DOMAIN values : values[j] = 0} IN
  [values EXCEPT ![CHOOSE j \in free : \A k \in free : j <= k] = v]

\* Promise.all keeps the value of element i at index i
storeAt(values, i, v) == [values EXCEPT ![i] = v]

\* the values Promise.all has collected after branch i settled with p
Collected(values, i, p) ==
  IF p.kind = "resolved" THEN storeAt(values, i, p.value) ELSE values

\* a variant that waits for every branch and reports the failure of the
\* lowest index
promiseAllLowest(promise, b, values, i, p) ==
  LET failed == {j \in DOMAIN b : b[j].kind = "rejected"} IN
  IF \E j \in DOMAIN b : ~Settled(b[j]) THEN promise
  ELSE IF failed = {} THEN settleOnce(promise, Resolve(values))
  ELSE settleOnce(promise,
         Reject(b[CHOOSE j \in failed : \A k \in failed : j <= k].error))

\* Promise.all(promises) after branch i settled with p
promiseAll(promise, b, values, i, p) ==
  IF p.kind = "rejected" THEN settleOnce(promise, Reject(p.error))
  ELSE IF \A j \in DOMAIN b : b[j].kind = "resolved"
       THEN settleOnce(promise, Resolve(values))
       ELSE promise

\* a variant in which the last branch to settle decides
promiseRaceLast(promise, b, values, i, p) ==
  IF \A j \in DOMAIN b : Settled(b[j])
  THEN Settle(Await(p)) ELSE promise

\* Promise.race(promises) after branch i settled with p
promiseRace(promise, b, values, i, p) ==
  settleOnce(promise, Settle(Await(p)))

\* a variant that settles with the first branch, failed or not
promiseAnyFirst(promise, b, values, i, p) ==
  settleOnce(promise, Settle(Await(p)))

\* Promise.any(promises) after branch i settled with p
promiseAny(promise, b, values, i, p) ==
  IF p.kind = "resolved" THEN settleOnce(promise, Resolve(p.value))
  ELSE IF \A j \in DOMAIN b : b[j].kind = "rejected"
       THEN settleOnce(promise,
                       Reject(AggregateError([j \in DOMAIN b |-> b[j].error])))
       ELSE promise

\* the keys of the object given to props, in the order of Object.entries
KeyOf(i) == <<"a", "b", "c", "d", "e", "f">>[i]

\* [key, await effect.#unsafeRun(env)] for every entry
NewEntries(values) == [j \in DOMAIN values |-> <<KeyOf(j), values[j]>>]

\* a variant that gives every key the value of the first entry
fromEntriesFirst(entries) ==
  [k \in {entries[j][1] : j \in DOMAIN entries} |-> entries[1][2]]

\* Object.fromEntries(entries): for each key the value of its last entry
fromEntries(entries) ==
  [k \in {entries[j][1] : j \in DOMAIN entries} |->
     entries[CHOOSE j \in DOMAIN entries :
               /\ entries[j][1] = k
               /\ \A m \in DOMAIN entries : entries[m][1] = k => m <= j][2]]

\* props: Promise.all over the entries, then Object.fromEntries(newEntries)
propsJoined(promise, b, values, i, p) ==
  LET all == promiseAll(promise, b, values, i, p) IN
  IF promise = Pending /\ all.kind = "resolve"
  THEN Resolve(fromEntries(NewEntries(all.value)))
  ELSE all

\* the joined promise each combinator returns
Joined(kind, promise, b, values, i, p) ==
  CASE kind \in {"map", "all"} -> promiseAll(promise, b, values, i, p)
    [] kind = "props" -> propsJoined(promise, b, values, i, p)
    [] kind = "any" -> promiseAny(promise, b, values, i, p)
    [] OTHER -> promiseRace(promise, b, values, i, p)

\* a variant in which settling the combined promise stops the other branches
CancelledOnceSettled(i) == outcome # Pending

\* a variant in which leaving the loop early stops the branches it started
CancelledOnAbort(i) == pc = "aborted"

\* no combinator keeps a handle on a started branch: nothing stops it
Cancelled(i) == FALSE

\* the effect of a started element settles (its work is its own), and the
\* joined promise, where there is one, reacts
SettleBranch(i) ==
  /\ i \in DOMAIN bst
  /\ bst[i].kind = "running"
  /\ ~Cancelled(i)
  /\ \E p \in BranchOuts(i) :
       LET b == [bst EXCEPT ![i] = p] IN
       /\ bst' = b
       /\ IF pc = "joined"
          THEN /\ acc' = Collected(acc, i, p)
               /\ outcome' = Joined(op.kind, outcome, b, acc', i, p)
          ELSE UNCHANGED <<acc, outcome>>
  /\ trace' = Append(trace, SettleEv(i))
  /\ UNCHANGED <<op, pc, idx, fvars>>

\* the awaited promise has settled: result.push(await ...) and the next turn
\* of the loop, or the rejection leaves the function
ResumeSeries ==
  /\ pc = "await"
  /\ op.kind \in {"mapSeries", "allSeries"}
  /\ Settled(bst[idx])
  /\ LET a == Await(bst[idx]) IN
     IF a.kind = "throw"
     THEN /\ outcome' = Settle(a)
          /\ pc' = "done"
          /\ UNCHANGED <<bst, trace, acc, idx>>
     ELSE SeriesChoice(idx + 1, Append(acc, a.result))
  /\ UNCHANGED <<op, fvars>>

ParKinds == {"map", "all", "race", "any", "timeout", "props"}

\* what one turn of the loop leaves in the trace: element i of a loop in
\* which fn raises x at element k (k = n + 1: it never raises)
ElemTrace(kind, i, k, x) ==
  IF kind \in {"map", "all"}
  THEN IF i = k THEN <<CallFn(i, Throw(x))>>
       ELSE <<CallFn(i, Return("effect")), StartEff(i)>>
  ELSE <<StartEff(i)>>

RECURSIVE LoopTrace(_, _, _, _)
LoopTrace(kind, i, k, x) ==
  IF i = 0 THEN <<>>
  ELSE LoopTrace(kind, i - 1, k, x) \o ElemTrace(kind, i, k, x)

\* Promise.all / race / any of an empty array
JoinedEmpty(kind) ==
  CASE kind \in {"map", "all"} -> Resolve(<<>>)
    [] kind = "props" -> Resolve(fromEntries(<<>>))
    [] kind = "any" -> Reject(AggregateError(<<>>))
    [] OTHER -> Pending

\* run(env) of RIO.map / all / race / any / timeout: the whole loop runs
\* before anything else; promises.push(fn(value).run(env)) for each element,
\* unless fn raises (at element k), which leaves the loop and rejects run
RunPar ==
  /\ pc = "idle"
  /\ op.kind \in ParKinds
  /\ \E k \in (IF op.kind = "map" THEN 1..(op.n + 1) ELSE {op.n + 1}) :
     \E x \in ErrorsOf(k) :
       /\ idx' = k
       /\ bst' = [i \in 1..op.n |-> IF i < k THEN Started ELSE Unstarted]
       /\ trace' = LoopTrace(op.kind, IF k > op.n THEN op.n ELSE k, k, x)
       /\ acc' = [i \in 1..op.n |-> 0]
       /\ IF k <= op.n
          THEN pc' = "aborted" /\ outcome' = Settle(Throw(x))
          ELSE /\ pc' = "joined"
               /\ outcome' = IF op.n = 0 THEN JoinedEmpty(op.kind)
                              ELSE Pending
  /\ UNCHANGED <<op, fvars>>

\* the Fiber interpreter is not involved in a run of these combinators
FiberIdle ==
  /\ root = [r \in Runs |-> FromPromise(FreshFn)]
  /\ fuel = [r \in Runs |-> 0]
  /\ InitCommon

InitRio(kinds, sizes) ==
  /\ op \in {[kind |-> k, n |-> n, ms |-> 0] : k \in kinds, n \in sizes}
  /\ pc = "idle"
  /\ idx = 0
  /\ bst = [i \in 1..op.n |-> Unstarted]
  /\ acc = <<>>
  /\ outcome = Pending
  /\ trace = <<>>
  /\ FiberIdle

InitSeries == InitRio({"mapSeries", "allSeries"}, 0..MaxElems)

NextSeries ==
  \/ RunSeries
  \/ ResumeSeries
  \/ \E i \in 1..MaxElems : SettleBranch(i)

SpecSeries == InitSeries /\ [][NextSeries]_vars

Delays == 1..MaxDelay

InitPar ==
  /\ op \in {[kind |-> k, n |-> n, ms |-> 0] :
               k \in ParKinds \ {"timeout"}, n \in 0..MaxElems}
             \cup {[kind |-> "timeout", n |-> 2, ms |-> d] : d \in Delays}
  /\ pc = "idle"
  /\ idx = 0
  /\ bst = [i \in 1..op.n |-> Unstarted]
  /\ acc = <<>>
  /\ outcome = Pending
  /\ trace = <<>>
  /\ FiberIdle

NextPar ==
  \/ RunPar
  \/ \E i \in 1..MaxElems : SettleBranch(i)

SpecPar == InitPar /\ [][NextPar]_vars

\* the work of every started branch comes to an end
SpecParFair ==
  SpecPar /\ \A i \in 1..MaxElems : WF_vars(SettleBranch(i))

\* ---- RIO.bracket: branch 1 is acquire, 2 the effect of use, 3 of release

CallWith(i, arg, out) == [what |-> "fn", i |-> i, arg |-> arg, out |-> out]

\* a variant that releases after the use only when nothing was raised
RunsFinalizerOnReturn(comp) == comp.kind = "return"

\* try { ... } finally { ... }: the finally block runs however the try
\* block was left
RunsFinalizer(comp) == TRUE

\* a variant in which the first error raised is the one that is kept
FinallyKeepsFirst(comp, fin) ==
  IF fin.kind = "throw" /\ comp.kind # "throw" THEN fin ELSE comp

\* the completion of try/finally: a raise in the finally block replaces the
\* completion of the try block
Finally(comp, fin) == IF fin.kind = "throw" THEN fin ELSE comp

\* the finally block of bracket, entered with the completion `comp` of the
\* try block (res: the resource, b, t: branches and trace so far):
\* release(resource) is called and its effect run and awaited
Release(res, comp, b, t, fnOut, runOut) ==
  /\ acc' = <<res, comp>>
  /\ IF ~RunsFinalizer(comp)
     THEN /\ outcome' = Settle(comp)
          /\ pc' = "done"
          /\ bst' = b /\ trace' = t
          /\ UNCHANGED idx
     ELSE IF fnOut.kind = "throw"
     THEN /\ outcome' = Settle(Finally(comp, fnOut))
          /\ pc' = "done"
          /\ bst' = b
          /\ trace' = Append(t, CallWith(3, res.result, fnOut))
          /\ UNCHANGED idx
     ELSE /\ trace' = t \o <<CallWith(3, res.result, fnOut), StartEff(3)>>
          /\ IF runOut.kind = "throw"
             THEN /\ outcome' = Settle(Finally(comp, runOut))
                  /\ pc' = "done"
                  /\ bst' = [b EXCEPT ![3] = Rejected(runOut.error)]
                  /\ UNCHANGED idx
             ELSE /\ bst' = [b EXCEPT ![3] = runOut.result]
                  /\ pc' = "await"
                  /\ idx' = 3
                  /\ UNCHANGED outcome

ReleaseChoice(res, comp, b, t) ==
  \E fnOut \in {Return("effect")} \cup {Throw(x) : x \in ErrorsOf(3)},
     runOut \in UnsafeRunOuts(3) :
    Release(res, comp, b, t, fnOut, runOut)

\* run(env) of RIO.bracket(acquire, release, use), up to the first await
RunBracket ==
  /\ pc = "idle"
  /\ op.kind = "bracket"
  /\ \E runOut \in UnsafeRunOuts(1) :
       /\ trace' = <<StartEff(1)>>
       /\ idx' = 1
       /\ IF runOut.kind = "throw"
          THEN /\ bst' = [bst EXCEPT ![1] = Rejected(runOut.error)]
               /\ outcome' = Settle(runOut)
               /\ pc' = "done"
          ELSE /\ bst' = [bst EXCEPT ![1] = runOut.result]
               /\ pc' = "await"
               /\ UNCHANGED outcome
  /\ UNCHANGED <<op, acc, fvars>>

\* acquire has settled: const resource = await ...; then the try block up to
\* its await, or straight on to the finally block when use raises
ResumeAcquire ==
  /\ pc = "await" /\ op.kind = "bracket" /\ idx = 1
  /\ Settled(bst[1])
  /\ LET a == Await(bst[1]) IN
     IF a.kind = "throw"
     THEN /\ outcome' = Settle(a)
          /\ pc' = "done"
          /\ UNCHANGED <<bst, trace, acc, idx>>
     ELSE \E fnOut \in {Return("effect")} \cup {Throw(x) : x \in ErrorsOf(2)},
             runOut \in UnsafeRunOuts(2) :
            LET called == Append(trace, CallWith(2, a.result, fnOut)) IN
            IF fnOut.kind = "throw"
            THEN ReleaseChoice(a, fnOut, bst, called)
            ELSE IF runOut.kind = "throw"
            THEN ReleaseChoice(a, runOut,
                               [bst EXCEPT ![2] = Rejected(runOut.error)],
                               Append(called, StartEff(2)))
            ELSE /\ acc' = <<a>>
                 /\ bst' = [bst EXCEPT ![2] = runOut.result]
                 /\ trace' = Append(called, StartEff(2))
                 /\ pc' = "await"
                 /\ idx' = 2
                 /\ UNCHANGED outcome
  /\ UNCHANGED <<op, fvars>>

\* the effect of use has settled: return await ..., then the finally block
ResumeUse ==
  /\ pc = "await" /\ op.kind = "bracket" /\ idx = 2
  /\ Settled(bst[2])
  /\ ReleaseChoice(acc[1], Await(bst[2]), bst, trace)
  /\ UNCHANGED <<op, fvars>>

\* the effect of release has settled: the end of the finally block
ResumeRelease ==
  /\ pc = "await" /\ op.kind = "bracket" /\ idx = 3
  /\ Settled(bst[3])
  /\ outcome' = Settle(Finally(acc[2], Await(bst[3])))
  /\ pc' = "done"
  /\ UNCHANGED <<op, idx, bst, acc, trace, fvars>>

InitBracket ==
  /\ op = [kind |-> "bracket", n |-> 3, ms |-> 0]
  /\ pc = "idle"
  /\ idx = 0
  /\ bst = [i \in 1..op.n |-> Unstarted]
  /\ acc = <<>>
  /\ outcome = Pending
  /\ trace = <<>>
  /\ FiberIdle

NextBracket ==
  \/ RunBracket
  \/ ResumeAcquire
  \/ ResumeUse
  \/ ResumeRelease
  \/ \E i \in 1..3 : SettleBranch(i)

SpecBracket == InitBracket /\ [][NextBracket]_vars

\* ---- the instance combinators: this, then a second stage ----
\* Branch 1 is the effect awaited first (this; the timer for delay), branch
\* 2 the effect awaited second (that, or the effect fn returns; this for
\* delay).

\* ---- RIO.reduce(values, initialValue, fn) ----
\* values[i] is written i; the accumulator is kept in acc[1]
initialValue == 0

\* a variant that hands fn the initial value at every element
ReduceArgsInitial(res, value) == <<initialValue, value>>

\* the arguments of fn(result, value)
ReduceArgs(res, value) == <<res, value>>

\* reduce, from the head of the loop at element i with accumulator `res`:
\* fnOut is what fn(result, value) does, runOut what #unsafeRun(env) of the
\* effect does.  The function stops at the await or ends.
ReduceLoop(i, res, fnOut, runOut) ==
  LET called == Append(trace, CallWith(i, ReduceArgs(res, i), fnOut)) IN
  /\ acc' = <<res>>
  /\ idx' = i
  /\ IF i > op.n
     THEN /\ outcome' = Settle(Return(res))
          /\ pc' = "done"
          /\ UNCHANGED <<bst, trace>>
     ELSE IF fnOut.kind = "throw"
     THEN /\ outcome' = Settle(fnOut)
          /\ pc' = "done"
          /\ trace' = called
          /\ UNCHANGED bst
     ELSE IF runOut.kind = "throw"
     THEN /\ outcome' = Settle(runOut)
          /\ pc' = "done"
          /\ trace' = Append(called, StartEff(i))
          /\ bst' = [bst EXCEPT ![i] = Rejected(runOut.error)]
     ELSE /\ pc' = "await"
          /\ trace' = Append(called, StartEff(i))
          /\ bst' = [bst EXCEPT ![i] = runOut.result]
          /\ UNCHANGED outcome

ReduceChoice(i, res) ==
  \E fnOut \in {Return("effect")} \cup {Throw(x) : x \in ErrorsOf(i)},
     runOut \in UnsafeRunOuts(i) :
    ReduceLoop(i, res, fnOut, runOut)

\* run(env) of RIO.reduce(values, initialValue, fn)
RunReduce ==
  /\ pc = "idle"
  /\ op.kind = "reduce"
  /\ ReduceChoice(1, initialValue)
  /\ UNCHANGED <<op, fvars>>

\* the awaited promise has settled: result = await ... and the next turn of
\* the loop, or the rejection leaves the function
ResumeReduce ==
  /\ pc = "await"
  /\ op.kind = "reduce"
  /\ Settled(bst[idx])
  /\ LET a == Await(bst[idx]) IN
     IF a.kind = "throw"
     THEN /\ outcome' = Settle(a)
          /\ pc' = "done"
          /\ UNCHANGED <<bst, trace, acc, idx>>
     ELSE ReduceChoice(idx + 1, a.result)
  /\ UNCHANGED <<op, fvars>>

InitReduce == InitRio({"reduce"}, 0..MaxElems)

NextReduce ==
  \/ RunReduce
  \/ ResumeReduce
  \/ \E i \in 1..MaxElems : SettleBranch(i)

SpecReduce == InitReduce /\ [][NextReduce]_vars

\* ---- instance combinators: at most two awaits in a row ----
SeqKinds == {"#map", "flatMap", "catch", "orElse", "finally", "delay",
             "provide", "tap", "zip", "zipWith"}

\* a variant of finally that skips the second effect after a failure
SecondOnReturn(kind, comp) == kind # "provide" /\ comp.kind = "return"

\* whether the function goes on to its second stage after the first await
\* completed with comp: catch/orElse on a raise, finally on both, provide
\* has no second stage, the others go on when the await returned
SecondOn(kind, comp) ==
  CASE kind \in {"catch", "orElse"} -> comp.kind = "throw"
    [] kind = "finally" -> TRUE
    [] kind = "provide" -> FALSE
    [] OTHER -> comp.kind = "return"

\* the second stage calls a function that returns the effect to run
FnBefore(kind) == kind \in {"flatMap", "catch", "tap"}

\* the second stage runs and awaits an effect
HasSecond(kind) == kind \notin {"#map", "provide"}

\* a variant that puts the second value first
pairSwapped(first, second) == <<second, first>>

\* pair(first, second)
pair(first, second) == <<first, second>>

\* what the function applied last may do: map's fn(value) and zipWith's
\* fn(first, second) return a value or raise, zip's pair returns the pair
FnAfterOuts(kind, first, second) ==
  CASE kind \in {"#map", "zipWith"} ->
         {Return(v) : v \in ValuesOf(3)} \cup {Throw(x) : x \in ErrorsOf(3)}
    [] kind = "zip" -> {Return(pair(first, second))}
    [] OTHER -> {NoCall}

\* the argument list of the function applied last
FnAfterArgs(kind, first, second) ==
  IF kind = "#map" THEN <<first>> ELSE <<first, second>>

\* a variant of tap that returns what the effect of fn resolved with
CombineSecond(kind, comp1, comp2, fnOut) == comp2

\* how the async function completes, from the completions of its two awaits
\* and of the function applied last
Combine(kind, comp1, comp2, fnOut) ==
  CASE kind \in {"finally", "tap"} -> Finally(comp1, comp2)
    [] kind \in {"flatMap", "catch", "orElse", "delay"} -> comp2
    [] kind \in {"zip", "zipWith"} ->
         IF comp2.kind = "throw" THEN comp2 ELSE fnOut
    [] kind = "#map" -> fnOut
    [] OTHER -> comp1

\* the end of the function once both awaits are done (comp2) or the second
\* stage has no effect to await (map): the function applied last, if any,
\* then the completion
FinishSeq(comp1, comp2, b, t) ==
  /\ bst' = b
  /\ pc' = "done"
  /\ acc' = <<comp1, comp2>>
  /\ UNCHANGED idx
  /\ IF op.kind \in {"#map", "zip", "zipWith"} /\ comp2.kind = "return"
     THEN \E fnOut \in FnAfterOuts(op.kind, comp1.result, comp2.result) :
            /\ trace' = Append(t, CallWith(3,
                 FnAfterArgs(op.kind, comp1.result, comp2.result), fnOut))
            /\ outcome' = Settle(Combine(op.kind, comp1, comp2, fnOut))
     ELSE /\ trace' = t
          /\ outcome' = Settle(Combine(op.kind, comp1, comp2, NoCall))

\* the function after its first await completed with comp1
AfterFirst(comp1, b, t) ==
  IF ~SecondOn(op.kind, comp1)
  THEN /\ outcome' = Settle(comp1)
       /\ pc' = "done"
       /\ bst' = b /\ trace' = t /\ acc' = <<comp1>>
       /\ UNCHANGED idx
  ELSE IF ~HasSecond(op.kind) THEN FinishSeq(comp1, comp1, b, t)
  ELSE \E fnOut \in (IF FnBefore(op.kind)
                     THEN {Return("effect")} \cup
                            {Throw(x) : x \in ErrorsOf(2)}
                     ELSE {NoCall}),
          runOut \in UnsafeRunOuts(2) :
         LET arg == IF comp1.kind = "throw" THEN comp1.error
                    ELSE comp1.result
             called == IF FnBefore(op.kind)
                       THEN Append(t, CallWith(2, arg, fnOut)) ELSE t
         IN
         IF fnOut.kind = "throw" THEN FinishSeq(comp1, fnOut, b, called)
         ELSE IF runOut.kind = "throw"
         THEN FinishSeq(comp1, runOut,
                        [b EXCEPT ![2] = Rejected(runOut.error)],
                        Append(called, StartEff(2)))
         ELSE /\ bst' = [b EXCEPT ![2] = runOut.result]
              /\ trace' = Append(called, StartEff(2))
              /\ acc' = <<comp1>>
              /\ pc' = "await"
              /\ idx' = 2
              /\ UNCHANGED outcome


\* run(env) of an instance combinator, up to its first await: delay first
\* awaits delay(milliseconds), the others this.#unsafeRun(env)
RunSeq ==
  /\ pc = "idle"
  /\ op.kind \in SeqKinds
  /\ \E runOut \in (IF op.kind = "delay" THEN {Return(Started)}
                     ELSE UnsafeRunOuts(1)) :
       IF runOut.kind = "throw"
       THEN AfterFirst(runOut, [bst EXCEPT ![1] = Rejected(runOut.error)],
                       <<StartEff(1)>>)
       ELSE /\ bst' = [bst EXCEPT ![1] = runOut.result]
            /\ trace' = <<StartEff(1)>>
            /\ idx' = 1
            /\ pc' = "await"
            /\ UNCHANGED <<acc, outcome>>
  /\ UNCHANGED <<op, fvars>>

\* the first await is over
ResumeFirst ==
  /\ pc = "await" /\ op.kind \in SeqKinds /\ idx = 1
  /\ Settled(bst[1])
  /\ AfterFirst(Await(bst[1]), bst, trace)
  /\ UNCHANGED <<op, fvars>>

\* the second await is over
ResumeSecond ==
  /\ pc = "await" /\ op.kind \in SeqKinds /\ idx = 2
  /\ Settled(bst[2])
  /\ FinishSeq(acc[1], Await(bst[2]), bst, trace)
  /\ UNCHANGED <<op, fvars>>

SeqOps ==
  {[kind |-> k, n |-> 2, ms |-> 0] : k \in SeqKinds \ {"delay"}}
    \cup {[kind |-> "delay", n |-> 2, ms |-> d] : d \in Delays}

InitSeq ==
  /\ op \in SeqOps
  /\ pc = "idle"
  /\ idx = 0
  /\ bst = [i \in 1..op.n |-> Unstarted]
  /\ acc = <<>>
  /\ outcome = Pending
  /\ trace = <<>>
  /\ FiberIdle

NextSeq ==
  \/ RunSeq
  \/ ResumeFirst
  \/ ResumeSecond
  \/ \E i \in 1..2 : SettleBranch(i)

SpecSeq == InitSeq /\ [][NextSeq]_vars

\* ---- building a description, then running it ----

\* the descriptions the static combinators and timeout build
Described ==
  {[kind |-> k, n |-> n, ms |-> 0] :
     k \in {"mapSeries", "allSeries", "map", "all", "race", "any", "props",
            "reduce"},
     n \in 0..MaxElems}
    \cup {[kind |-> "timeout", n |-> 2, ms |-> d] : d \in Delays}
    \cup {[kind |-> "bracket", n |-> 3, ms |-> 0]}
    \cup SeqOps

\* a variant that runs the effects it is given while it builds
ConstructedStarted(o) == [i \in 1..o.n |-> Started]

\* every combinator is `return new RIO((env) => ...)`: the constructor only
\* stores the closure, so no effect of the new description has been started
Constructed(o) == [i \in 1..o.n |-> Unstarted]

\* a combinator is called: the description exists, run has not been called
Construct ==
  /\ op = NoOp
  /\ \E o \in Described :
       /\ op' = o
       /\ bst' = Constructed(o)
  /\ UNCHANGED <<pc, idx, acc, outcome, trace, fvars>>

InitLazy == RioIdle /\ FiberIdle

NextLazy ==
  \/ Construct
  \/ RunSeries
  \/ ResumeSeries
  \/ RunPar
  \/ RunBracket
  \/ ResumeAcquire
  \/ ResumeUse
  \/ ResumeRelease
  \/ RunSeq
  \/ ResumeFirst
  \/ ResumeSecond
  \/ RunReduce
  \/ ResumeReduce
  \/ \E i \in 1..MaxElems : SettleBranch(i)

SpecLazy == InitLazy /\ [][NextLazy]_vars

\* ---- one description run several times ----

\* descriptions whose continuations are all incM
ReuseBases ==
  {IncChain(n) : n \in 0..2}
    \cup {flatMap(FromFunction(FreshFn), IncM),
          flatMap(FromPromise(FreshFn), IncM)}

\* every run is given the same description e, or the later runs are given
\* e.flatMap(incM), which shares e with the first
InitReuse ==
  /\ root \in {[r \in Runs |-> IF r > 1 /\ longer THEN flatMap(e, IncM)
                               ELSE e] :
                 e \in ReuseBases, longer \in BOOLEAN}
  /\ fuel = [r \in Runs |-> 0]
  /\ InitCommon
  /\ RioIdle

NextReuse ==
  \E r \in Runs :
    \/ Start(r)
    \/ StepDone(r)
    \/ StepSuccess(r)
    \/ StepFailure(r)
    \/ StepFlatMap(r)
    \/ StepFromFunction(r)
    \/ StepFromPromise(r)
    \/ Resume(r)

SpecReuse == InitReuse /\ [][NextReuse]_vars

\* ---- the same description evaluated by the promise-based RIO ----
\* run(env) of the promise-based composition of `eff`: how the promise
\* settles (comp) and the functions invoked on the way, in order (calls)
RECURSIVE PromiseRun(_, _)
PromiseRun(eff, e) ==
  CASE eff.tag = "Success" -> [comp |-> Return(eff.value), calls |-> <<>>]
    [] eff.tag = "Failure" -> [comp |-> Throw(eff.error), calls |-> <<>>]
    [] eff.tag \in {"FromFunction", "FromPromise"} ->
         LET out == StepScript(eff.fn)
             call == [role |-> eff.tag, fn |-> eff.fn, arg |-> e,
                      comp |-> out] IN
         [comp |-> IF out.kind = "throw" THEN out
                   ELSE IF out.result.kind = "rejecting"
                        THEN Throw(out.result.error)
                        ELSE Return(out.result.value),
          calls |-> <<call>>]
    [] eff.tag = "FlatMap" ->
         LET a == PromiseRun(eff.effect, e) IN
         IF a.comp.kind = "throw" THEN a
         ELSE LET out == Scripted(eff.fn)
                  call == [role |-> "FlatMap", fn |-> eff.fn,
                           arg |-> a.comp.result, comp |-> out] IN
              IF out.kind = "throw"
              THEN [comp |-> out, calls |-> Append(a.calls, call)]
              ELSE LET b == PromiseRun(out.result, e) IN
                   [comp |-> b.comp,
                    calls |-> Append(a.calls, call) \o b.calls]
    [] eff.tag = "Catch" ->
         LET a == PromiseRun(eff.effect, e) IN
         IF a.comp.kind = "return" THEN a
         ELSE LET out == Scripted(eff.fn)
                  call == [role |-> "Catch", fn |-> eff.fn,
                           arg |-> a.comp.error, comp |-> out] IN
              IF out.kind = "throw"
              THEN [comp |-> out, calls |-> Append(a.calls, call)]
              ELSE LET b == PromiseRun(out.result, e) IN
                   [comp |-> b.comp,
                    calls |-> Append(a.calls, call) \o b.calls]

EquivDepth == 2

ScriptedLeaves ==
  {Success(1)} \cup {Failure(x) : x \in ScriptErrors}
    \cup {FromFunction(StepReturns(1)), FromPromise(StepReturns(1))}
    \cup {FromFunction(StepRaises(x)) : x \in ScriptErrors}
    \cup {FromPromise(StepRaises(11)), FromPromise(StepRejects(12))}

ScriptedFns ==
  {Returning(k) : k \in DOMAIN ScriptedEffects}
    \cup {Raising(x) : x \in ScriptErrors}

RECURSIVE ScriptedRoots(_)
ScriptedRoots(d) ==
  IF d = 0 THEN ScriptedLeaves
  ELSE LET sub == ScriptedRoots(d - 1) IN
       sub \cup {flatMap(x, f) : x \in sub, f \in ScriptedFns}
           \cup {catch(x, f) : x \in sub, f \in ScriptedFns}

\* one run of a description whose functions are all scripted, with a log
InitEquiv ==
  /\ root \in {[r \in Runs |-> IF r = 1 THEN x ELSE FromPromise(FreshFn)] :
                 x \in ScriptedRoots(EquivDepth)}
  /\ fuel = [r \in Runs |-> 0]
  /\ InitCommon
  /\ op = LogOp
  /\ pc = "idle"
  /\ idx = 0
  /\ bst = <<>>
  /\ acc = <<>>
  /\ outcome = Pending
  /\ trace = <<>>

SpecEquiv == InitEquiv /\ [][Next]_vars

\* ---- the interpreter that fuses a FlatMap over a leaf (a second build) ----
\* what the function fn does when run r invokes it
OutsOf(r, fn) == IF IsScripted(fn) THEN {Scripted(fn)} ELSE FnResults(r)

\* what the step function fn of a node with the given tag does
StepOutsOf(fn, tag) ==
  IF IsScripted(fn) THEN {StepScript(fn)} ELSE StepResults(tag)

\* a variant that also pushes the node it fuses
FusedStackPushes(s, node, r) == Append(s, Frame(node, r))

\* the fused cases do not touch the stack
FusedStack(s, node, r) == s

\* the result of a fused case: flatMap.fn(value) inside the try block
Fused(r, precalls, value, out) ==
  [stack |-> FusedStack(Stack(r), current[r], r), comp |-> TryCatch(out),
   popped |-> <<>>,
   calls |-> Append(precalls, [role |-> "FlatMap", fn |-> current[r].fn,
                               arg |-> value, comp |-> out])]

\* case Tag.FlatMap of the fused build: switch (inner.tag)
FusedFlatMap(r) ==
  /\ Running(r)
  /\ current[r].tag = "FlatMap"
  /\ LET inner == current[r].effect IN
     CASE inner.tag = "Success" ->
            \E out \in OutsOf(r, current[r].fn) :
              Iterate(r, "FlatMap", Fused(r, <<>>, inner.value, out), <<>>,
                      NoCall)
       [] inner.tag \in {"FromFunction", "FromPromise"} ->
            \E out1 \in StepOutsOf(inner.fn, inner.tag) :
              LET call == [role |-> inner.tag, fn |-> inner.fn,
                           arg |-> env[r], comp |-> out1] IN
              IF out1.kind = "throw"
              THEN Iterate(r, "FlatMap",
                           [NoPop(r, TryCatch(out1)) EXCEPT
                              !.stack = FusedStack(Stack(r), current[r], r)],
                           <<call>>, NoCall)
              ELSE IF AwaitsAt(inner.tag)
              THEN /\ awaited' = [awaited EXCEPT ![r] = out1.result]
                   /\ status' = [status EXCEPT ![r] = "suspended"]
                   /\ thread' = 0
                   /\ Count(r, <<call>>)
                   /\ ev' = [run |-> r, kind |-> "FlatMap", popped |-> <<>>,
                             calls |-> <<call>>, settle |-> NoCall]
                   /\ stack' = [stack EXCEPT ![StackSlot(r)] =
                                  FusedStack(Stack(r), current[r], r)]
                   /\ UNCHANGED <<root, env, current, result>>
                   /\ Logged(r, <<call>>)
              ELSE \E out \in OutsOf(r, current[r].fn) :
                     Iterate(r, "FlatMap",
                             Fused(r, <<call>>, ValueOf(out1.result), out),
                             <<>>, NoCall)
       [] OTHER -> Iterate(r, "FlatMap",
                           pushContinuation(Stack(r), current[r], r), <<>>,
                           NoCall)

\* the fused build resumed after `await fromPromise.fn(env)` inside case
\* Tag.FlatMap: flatMap.fn(value), or the rejection caught
FusedResume(r) ==
  /\ thread = 0
  /\ status[r] = "suspended"
  /\ current[r].tag = "FlatMap"
  /\ \E st \in Settlements(awaited[r]) :
       IF st.kind = "reject"
       THEN Iterate(r, "Resume", NoPop(r, TryCatch(Throw(st.error))), <<>>,
                    st)
       ELSE \E out \in OutsOf(r, current[r].fn) :
              Iterate(r, "Resume",
                      [Fused(r, <<>>, st.value, out) EXCEPT
                         !.stack = Stack(r)], <<>>, st)

\* the comparison turns from one interpreter to the other: the two builds
\* are separate programs, each with a thread of its own
TurnAway ==
  /\ thread # 0
  /\ thread' = 0
  /\ UNCHANGED <<root, env, status, current, stack, awaited, result, fuel,
                 rescued, ev, pvars>>

TurnTo(r) ==
  /\ thread = 0
  /\ status[r] = "running"
  /\ thread' = r
  /\ UNCHANGED <<root, env, status, current, stack, awaited, result, fuel,
                 rescued, ev, pvars>>

FusedLeaves ==
  {Success(1), Failure(11), FromFunction(StepReturns(1)),
   FromFunction(StepRaises(11)), FromPromise(StepReturns(1)),
   FromPromise(StepRejects(12))}

FusedFns == {Returning(1), Returning(2), Raising(12)}

RECURSIVE FusedRoots(_)
FusedRoots(d) ==
  IF d = 0 THEN FusedLeaves
  ELSE LET sub == FusedRoots(d - 1) IN
       sub \cup {flatMap(x, f) : x \in sub, f \in FusedFns}
           \cup {catch(x, f) : x \in sub, f \in FusedFns}

\* run 1: the build of Fiber.ts; run 2: the fused build, same description
InitFused ==
  /\ root \in {[r \in Runs |-> IF r \in {1, 2} THEN x
                               ELSE FromPromise(FreshFn)] :
                 x \in FusedRoots(EquivDepth)}
  /\ fuel = [r \in Runs |-> 0]
  /\ InitCommon
  /\ op = LogOp
  /\ pc = "idle"
  /\ idx = 0
  /\ bst = <<>>
  /\ acc = <<>>
  /\ outcome = Pending
  /\ trace = <<>>

NextFused ==
  \/ Step(1)
  \/ Start(2)
  \/ StepDone(2)
  \/ StepSuccess(2)
  \/ StepFailure(2)
  \/ FusedFlatMap(2)
  \/ StepCatch(2)
  \/ StepFromFunction(2)
  \/ StepFromPromise(2)
  \/ (current[2].tag # "FlatMap" /\ Resume(2))
  \/ FusedResume(2)
  \/ TurnAway
  \/ \E r \in {1, 2} : TurnTo(r)

SpecFused == InitFused /\ [][NextFused]_vars

\* the loop of run is synchronous, so a run that has the thread keeps
\* iterating; an awaited promise is taken to settle, which resumes the run
InitFair ==
  /\ root \in {[r \in Runs |-> IF r = 1 THEN e ELSE FromPromise(FreshFn)] :
                 e \in TypeRoots(MaxDepth - 1)}
  /\ fuel = [r \in Runs |-> MaxCalls]
  /\ InitCommon
  /\ RioIdle

SpecFair ==
  /\ InitFair /\ [][Next]_vars
  /\ WF_vars(Running(1) /\ Next) /\ WF_vars(Resume(1))

\* ---- one Fiber instance given a second run ----
AgainDepth == 2

\* the effects given to the later run
AgainRoots == {Success(1), Failure(11)}

\* fiber.run(effect2, env2) on an instance whose earlier run has settled:
\* the constructor is not run again, so run starts on whatever the array
\* holds; the frames an earlier run left there are marked with owner 0
RunAgain(r) ==
  /\ thread = 0
  /\ status[r] \in {"resolved", "rejected"}
  /\ env[r] < 30
  /\ env' = [env EXCEPT ![r] = @ + 10]
  /\ status' = [status EXCEPT ![r] = "running"]
  /\ \E e \in AgainRoots :
       /\ root' = [root EXCEPT ![r] = e]
       /\ current' = [current EXCEPT ![r] = e]
  /\ stack' = [stack EXCEPT ![StackSlot(r)] =
                 [k \in DOMAIN @ |-> [@[k] EXCEPT !.owner = 0]]]
  /\ thread' = r
  /\ ev' = [NoEvent EXCEPT !.run = r, !.kind = "Start"]
  /\ UNCHANGED <<awaited, result, fuel, rescued, pvars>>

InitAgain ==
  /\ root \in {[r \in Runs |-> IF r = 1 THEN e ELSE FromPromise(FreshFn)] :
                 e \in ScriptedRoots(AgainDepth)}
  /\ fuel = [r \in Runs |-> 0]
  /\ InitCommon
  /\ op = LogOp
  /\ pc = "idle"
  /\ idx = 0
  /\ bst = <<>>
  /\ acc = <<>>
  /\ outcome = Pending
  /\ trace = <<>>

NextAgain ==
  \/ Step(1)
  \/ RunAgain(1)

SpecAgain == InitAgain /\ [][NextAgain]_vars

TypeOK ==
  /\ thread \in Runs \cup {0}
  /\ \A r \in Runs : status[r] \in
       {"idle", "running", "suspended", "resolved", "rejected"}

\* ---- helpers of the properties ----
HasTag(s, t) == \E i \in 1..Len(s) : s[i].tag = t

\* index of the most recently pushed frame with tag t
TopIndex(s, t) ==
  CHOOSE i \in 1..Len(s) :
    s[i].tag = t /\ \A j \in (i + 1)..Len(s) : s[j].tag # t

\* the frames from the top down to index i, in the order they are popped
PoppedDownTo(s, i) == [k \in 1..(Len(s) - i + 1) |-> s[Len(s) + 1 - k]]

Below(s, i) == SubSeq(s, 1, i - 1)

AtError(r) == Running(r) /\ current[r].tag = "Failure"

Roles(calls) == {calls[i].role : i \in 1..Len(calls)}

\* C1: When the current node is Error(e), frames are popped from the top,
\* every Bind-frame is discarded without being invoked, and the most
\* recently pushed Rescue-frame is invoked with e; what it returns becomes
\* the current node.  No Bind continuation is invoked in an Error transition.
C1_ErrorUnwindsToNearestRescue ==
  [][\A r \in Runs :
       AtError(r) /\ vars' # vars =>
         LET s == Stack(r) IN
         /\ ev'.run = r /\ ev'.kind = "Failure"
         /\ "FlatMap" \notin Roles(ev'.calls)
         /\ HasTag(s, "Catch") =>
              LET i == TopIndex(s, "Catch") IN
              /\ ev'.popped = PoppedDownTo(s, i)
              /\ \A k \in 1..(Len(ev'.popped) - 1) :
                   ev'.popped[k].tag = "FlatMap"
              /\ Len(ev'.calls) = 1
              /\ ev'.calls[1].role = "Catch"
              /\ ev'.calls[1].fn = s[i].fn
              /\ ev'.calls[1].arg = current[r].error
              /\ stack'[StackSlot(r)] = Below(s, i)
              /\ ev'.calls[1].comp.kind = "return" =>
                   /\ current'[r] = ev'.calls[1].comp.result
                   /\ status'[r] = "running"
    ]_vars

\* an Error transition has discarded a Bind-frame and invoked a Rescue-frame
C1_Witness ==
  /\ ev.kind = "Failure"
  /\ Len(ev.popped) >= 2
  /\ ev.popped[1].tag = "FlatMap"
  /\ Len(ev.calls) = 1
  /\ ev.calls[1].comp.kind = "return"

\* C2: If Error(e) is reached with no Rescue-frame on the stack, the run
\* rejects with exactly e and no pending continuation is invoked.
C2_UncaughtErrorRejectsUnchanged ==
  [][\A r \in Runs :
       AtError(r) /\ ~HasTag(Stack(r), "Catch") /\ vars' # vars =>
         /\ status'[r] = "rejected"
         /\ result'[r] = current[r].error
         /\ ev'.calls = <<>>
         /\ ev'.popped = PoppedDownTo(Stack(r), 1)
    ]_vars

\* a run rejected by an Error that found only Bind-frames
C2_Witness ==
  /\ status[1] = "rejected"
  /\ ev.kind = "Failure"
  /\ ev.calls = <<>>
  /\ Len(ev.popped) >= 2
  /\ result[1] \in Errors

OnSuccessPath(e) == e.kind \in {"Success", "FromFunction", "Resume"}

LastCall(e) == e.calls[Len(e.calls)]

\* the last transition invoked a Bind continuation, which raised
BindRaised(e) ==
  /\ OnSuccessPath(e)
  /\ e.calls # <<>>
  /\ LastCall(e).role = "FlatMap"
  /\ LastCall(e).comp.kind = "throw"

\* C3: If a Bind continuation invoked on the success path raises x, the
\* current node becomes Error(x), and x is then delivered to the nearest
\* Rescue-frame still on the stack; with no Rescue-frame the run rejects
\* with x.
C3_ContinuationFaultBecomesError ==
  [][\A r \in Runs :
       /\ (ev'.run = r /\ vars' # vars /\ BindRaised(ev')) =>
            /\ current'[r] = Failure(LastCall(ev').comp.error)
            /\ status'[r] = "running"
            /\ thread' = r
       /\ (ev.run = r /\ BindRaised(ev) /\ vars' # vars) =>
            LET s == Stack(r)
                x == LastCall(ev).comp.error IN
            IF HasTag(s, "Catch")
            THEN /\ Len(ev'.calls) = 1
                 /\ ev'.calls[1].role = "Catch"
                 /\ ev'.calls[1].fn = s[TopIndex(s, "Catch")].fn
                 /\ ev'.calls[1].arg = x
            ELSE /\ status'[r] = "rejected"
                 /\ result'[r] = x
    ]_vars

\* a continuation has raised below a pending Rescue-frame
C3_Witness ==
  /\ BindRaised(ev)
  /\ current[1] = Failure(LastCall(ev).comp.error)
  /\ HasTag(Stack(1), "Catch")

\* C4 (as claimed): a Rescue handler that raises x during unwind hands x to
\* the next enclosing Rescue-frame; the run rejects with x only when no
\* Rescue-frame remains on the stack.
C4_HandlerFaultReachesOuterRescue ==
  \A r \in Runs :
    (/\ status[r] = "rejected"
     /\ ev.run = r
     /\ ev.kind = "Failure"
     /\ ev.calls # <<>>
     /\ ev.calls[1].comp.kind = "throw")
      => ~HasTag(Stack(r), "Catch")

\* the value v takes the success path of run r in this step
ContinuesAsValue(r, v) ==
  LET s == Stack(r) IN
  IF HasTag(s, "FlatMap")
  THEN LET i == TopIndex(s, "FlatMap")
           c == LastCall(ev') IN
       /\ ev'.calls # <<>>
       /\ c.role = "FlatMap" /\ c.fn = s[i].fn /\ c.arg = v
       /\ ev'.popped = PoppedDownTo(s, i)
       /\ stack'[StackSlot(r)] = Below(s, i)
       /\ current'[r] = IF c.comp.kind = "return" THEN c.comp.result
                        ELSE Failure(c.comp.error)
       /\ status'[r] = "running"
  ELSE /\ Roles(ev'.calls) \cap {"FlatMap", "Catch"} = {}
       /\ ev'.popped = PoppedDownTo(s, 1)
       /\ stack'[StackSlot(r)] = <<>>
       /\ current'[r] = Done(v)
       /\ status'[r] = "running"

\* the error x takes the unwind path of run r in this step
DeliveredAsError(r, x) ==
  LET s == Stack(r) IN
  IF HasTag(s, "Catch")
  THEN /\ Len(ev'.calls) = 1
       /\ ev'.calls[1].role = "Catch"
       /\ ev'.calls[1].fn = s[TopIndex(s, "Catch")].fn
       /\ ev'.calls[1].arg = x
  ELSE /\ status'[r] = "rejected"
       /\ result'[r] = x

StaysErrorInPlace(r, x) ==
  /\ current'[r] = Failure(x)
  /\ status'[r] = "running"
  /\ thread' = r
  /\ stack'[StackSlot(r)] = Stack(r)

\* the last transition invoked a step function of the given kind, which raised
StepRaised(e, tag) ==
  /\ e.kind = tag
  /\ e.calls # <<>>
  /\ e.calls[1].role = tag
  /\ e.calls[1].comp.kind = "throw"

CallsOf(calls, role) == {k \in 1..Len(calls) : calls[k].role = role}

\* C5: When the current node is SyncStep(fn), fn is invoked once with the
\* run's environment; if it returns v the run continues as for Value(v); if
\* it raises x the current node becomes Error(x), which a Rescue-frame
\* catches and which otherwise becomes the run's rejection.
C5_SyncStepReturnsOrFails ==
  [][\A r \in Runs :
       /\ (Running(r) /\ current[r].tag = "FromFunction" /\ vars' # vars) =>
            /\ ev'.run = r
            /\ Cardinality(CallsOf(ev'.calls, "FromFunction")) = 1
            /\ ev'.calls[1].role = "FromFunction"
            /\ ev'.calls[1].fn = current[r].fn
            /\ ev'.calls[1].arg = env[r]
            /\ IF ev'.calls[1].comp.kind = "throw"
               THEN /\ Len(ev'.calls) = 1
                    /\ StaysErrorInPlace(r, ev'.calls[1].comp.error)
               ELSE ContinuesAsValue(r, ev'.calls[1].comp.result.value)
       /\ (ev.run = r /\ StepRaised(ev, "FromFunction") /\ vars' # vars) =>
            DeliveredAsError(r, ev.calls[1].comp.error)
    ]_vars

\* a step function has returned a value that was passed to a Bind-frame
C5_Witness ==
  /\ ev.kind = "FromFunction"
  /\ Len(ev.calls) = 2
  /\ ev.calls[1].comp.kind = "return"
  /\ ev.calls[2].role = "FlatMap"
  /\ ev.calls[2].arg = ev.calls[1].comp.result.value

\* C6: When the current node is AsyncStep(fn), the run suspends until the
\* future returned by fn(env) settles: resolved with v it continues as for
\* Value(v); rejected with x, or fn raising x, the current node becomes
\* Error(x) and follows the unwind path.
C6_AsyncStepSuspendsAndSettles ==
  [][\A r \in Runs :
       /\ (Running(r) /\ current[r].tag = "FromPromise" /\ vars' # vars) =>
            /\ ev'.run = r
            /\ Len(ev'.calls) = 1
            /\ ev'.calls[1].role = "FromPromise"
            /\ ev'.calls[1].fn = current[r].fn
            /\ ev'.calls[1].arg = env[r]
            /\ IF ev'.calls[1].comp.kind = "throw"
               THEN StaysErrorInPlace(r, ev'.calls[1].comp.error)
               ELSE /\ status'[r] = "suspended"
                    /\ thread' = 0
                    /\ current'[r] = current[r]
                    /\ stack'[StackSlot(r)] = Stack(r)
       /\ (/\ status[r] = "suspended"
           /\ \/ status'[r] # "suspended"
              \/ current'[r] # current[r]
              \/ stack'[StackSlot(r)] # Stack(r)) =>
            /\ ev'.run = r
            /\ ev'.kind = "Resume"
            /\ ev'.settle \in Settlements(awaited[r])
            /\ IF ev'.settle.kind = "reject"
               THEN StaysErrorInPlace(r, ev'.settle.error)
               ELSE ContinuesAsValue(r, ev'.settle.value)
       /\ (ev.run = r /\ StepRaised(ev, "FromPromise") /\ vars' # vars) =>
            DeliveredAsError(r, ev.calls[1].comp.error)
       /\ (/\ ev.run = r /\ ev.kind = "Resume" /\ ev.settle.kind = "reject"
           /\ vars' # vars) =>
            DeliveredAsError(r, ev.settle.error)
    ]_vars

\* a suspended run was resumed by a rejection below a pending Rescue-frame
C6_Witness ==
  /\ ev.kind = "Resume"
  /\ ev.settle.kind = "reject"
  /\ current[ev.run] = Failure(ev.settle.error)
  /\ HasTag(Stack(ev.run), "Catch")

\* C7: On the success path every Rescue-frame on top of the stack is popped
\* without invoking its handler and the first Bind-frame below receives v;
\* if no Bind-frame remains the run settles with success v.  A Rescue
\* handler is never invoked in a success transition.
C7_RescueInertOnSuccess ==
  [][\A r \in Runs :
       /\ (Running(r) /\ current[r].tag = "Success" /\ vars' # vars) =>
            /\ ev'.run = r
            /\ ContinuesAsValue(r, current[r].value)
       /\ (ev'.run = r /\ OnSuccessPath(ev') /\ vars' # vars) =>
            /\ "Catch" \notin Roles(ev'.calls)
            /\ \A k \in 1..Len(ev'.popped) :
                 ev'.popped[k].tag = "FlatMap" => k = Len(ev'.popped)
       /\ (Running(r) /\ current[r].tag = "Done" /\ vars' # vars) =>
            /\ status'[r] = "resolved"
            /\ result'[r] = current[r].value
            /\ Stack(r) = <<>>
    ]_vars

\* a value has skipped a Rescue-frame and was passed to the Bind-frame below
C7_Witness ==
  /\ ev.kind = "Success"
  /\ Len(ev.popped) >= 2
  /\ ev.popped[1].tag = "Catch"
  /\ Len(ev.calls) = 1
  /\ ev.calls[1].role = "FlatMap"

\* e.flatMap(f1)...flatMap(fk), k >= 1, over a leaf e
RECURSIVE Chains(_)
Chains(k) ==
  IF k = 0 THEN Leaves
  ELSE {flatMap(c, k) : c \in Chains(k - 1)}

\* e.flatMap(f1)...flatMap(fk).catch(h)
ChainCatch ==
  UNION {{catch(c, k + 1) : c \in Chains(k)} : k \in 1..(MaxDepth - 1)}

\* an upstream step of the chain has failed: an error is current and only
\* the frame of the chain's catch can handle it
UpstreamFailed(r) ==
  /\ AtError(r)
  /\ Stack(r) # <<>>
  /\ Stack(r)[1] = Frame(root[r], r)
  /\ \A j \in 2..Len(Stack(r)) : Stack(r)[j].tag # "Catch"

\* C8: For e.flatMap(f1)...flatMap(fk).catch(h): when an upstream step
\* fails h is invoked with that step's error, h is invoked only then, and
\* never more than once in a run; without an upstream failure h is not
\* invoked.
C8_CatchInvokedExactlyOnceOnFailure ==
  [][\A r \in Runs :
       root[r] \in ChainCatch =>
         LET h == root[r].fn IN
         /\ (UpstreamFailed(r) /\ vars' # vars) =>
              /\ rescued'[r][h] = rescued[r][h] + 1
              /\ ev'.calls[1].role = "Catch"
              /\ ev'.calls[1].fn = h
              /\ ev'.calls[1].arg = current[r].error
         /\ rescued'[r][h] # rescued[r][h] => UpstreamFailed(r)
         /\ rescued'[r][h] <= 1
    ]_vars

\* a run of e.flatMap(f1).flatMap(f2).catch(h) has settled after h was
\* invoked
C8_Witness ==
  /\ root[1] \in ChainCatch
  /\ root[1].effect.tag = "FlatMap"
  /\ root[1].effect.effect.tag = "FlatMap"
  /\ rescued[1][root[1].fn] = 1
  /\ status[1] \in {"resolved", "rejected"}

\* C9: A run is interleaved with other runs only at its AsyncStep
\* evaluation points: while it is between suspension points every step is
\* its own, the other runs do not move, and it gives up the thread only by
\* suspending at an AsyncStep or by settling.
C9_InterleavingOnlyAtAsyncStep ==
  [][\A r \in Runs :
       (status[r] = "running" /\ vars' # vars) =>
         /\ thread = r
         /\ ev'.run = r
         /\ \A q \in Runs \ {r} :
              /\ status'[q] = status[q]
              /\ current'[q] = current[q]
              /\ result'[q] = result[q]
              /\ stack'[StackSlot(q)] = Stack(q)
         /\ status'[r] \in {"running", "suspended", "resolved", "rejected"}
         /\ status'[r] = "suspended" => current[r].tag = "FromPromise"
         /\ thread' # r => status'[r] # "running"
    ]_vars

\* a run has executed one Bind step and is about to execute the next one
\* while another run is suspended
C9_Witness ==
  \E r, q \in Runs :
    /\ r # q
    /\ status[q] = "suspended"
    /\ status[r] = "running"
    /\ ev.run = r
    /\ ev.calls # <<>>
    /\ LastCall(ev).role = "FlatMap"
    /\ current[r].tag = "Success"
    /\ HasTag(Stack(r), "FlatMap")

\* C10: Each run has its own continuation stack: every frame a run pops,
\* discards or invokes was pushed by that run, and the stack a run works on
\* holds only its own frames.
C10_StackPrivateToRun ==
  /\ \A i \in 1..Len(ev.popped) : ev.popped[i].owner = ev.run
  /\ \A r \in Runs : \A i \in 1..Len(Stack(r)) : Stack(r)[i].owner = r

\* a run has popped a frame while another run is suspended with frames
\* pending
C10_Witness ==
  \E r, q \in Runs :
    /\ r # q
    /\ status[q] = "suspended"
    /\ Stack(q) # <<>>
    /\ ev.run = r
    /\ ev.popped # <<>>

\* C11: a chain of N flatMap(incM) over success(0), once run, settles with
\* the success value N; the continuation stack never holds more than N
\* frames and is empty when the run has settled.
C11_ChainSettlesWithLength ==
  /\ [](Len(Stack(1)) <= ChainLen(root[1]))
  /\ [](status[1] # "rejected")
  /\ [](status[1] = "resolved" =>
          result[1] = ChainLen(root[1]) /\ Stack(1) = <<>>)
  /\ (status[1] = "running" ~> status[1] = "resolved")

C11_Witness ==
  /\ ChainLen(root[1]) = MaxChain
  /\ status[1] = "resolved"
  /\ result[1] = MaxChain
  /\ ev.kind = "Done"

FnOrder == [k \in 1..Len(SelectSeq(trace, LAMBDA t : t.what = "fn")) |->
              SelectSeq(trace, LAMBDA t : t.what = "fn")[k].i]

FnCalled(i) == \E k \in DOMAIN trace : trace[k].what = "fn" /\ trace[k].i = i

EffStarted(i) == \E k \in DOMAIN trace : trace[k] = StartEff(i)

\* fn raised for element i
FnRaised(i) ==
  \E k \in DOMAIN trace :
    trace[k].what = "fn" /\ trace[k].i = i /\ trace[k].out.kind = "throw"

\* C13: mapSeries/allSeries go strictly left to right: fn is invoked for
\* element i+1 only after the effect of element i has succeeded; the first
\* failure rejects the whole with that error and nothing later is invoked
\* or started; on success the values are listed in input order.
C13_SeriesLeftToRight ==
  /\ FnOrder = [k \in 1..Len(FnOrder) |-> k]
  /\ \A i \in 1..op.n :
       /\ (i > 1 /\ FnCalled(i)) => bst[i - 1].kind = "resolved"
       /\ EffStarted(i) => FnCalled(i) /\ ~FnRaised(i)
       /\ (bst[i].kind = "rejected" \/ FnRaised(i)) =>
            /\ \A j \in (i + 1)..op.n : ~FnCalled(j) /\ bst[j] = Unstarted
            /\ outcome.kind # "resolve"
            /\ pc = "done" =>
                 \/ bst[i].kind = "rejected" /\ outcome = Reject(bst[i].error)
                 \/ /\ FnRaised(i)
                    /\ outcome = Settle(trace[Len(trace)].out)
  /\ outcome.kind = "resolve" =>
       /\ \A i \in 1..op.n : bst[i].kind = "resolved"
       /\ outcome.value = [i \in 1..op.n |-> bst[i].value]

C13_Witness ==
  /\ op.kind = "mapSeries"
  /\ op.n = MaxElems
  /\ bst[1].kind = "resolved"
  /\ bst[2].kind = "rejected"
  /\ pc = "done"
  /\ outcome = Reject(bst[2].error)
  /\ bst[MaxElems] = Unstarted

\* the branches in the order in which their promises settled
SettleOrder ==
  [k \in 1..Len(SelectSeq(trace, LAMBDA t : t.what = "settle")) |->
     SelectSeq(trace, LAMBDA t : t.what = "settle")[k].i]

IsTraversal == op.kind \in {"map", "all"}

\* branch i settles in this step as a failure
FailsNow(i) == bst[i].kind = "running" /\ bst'[i].kind = "rejected"

C15_ParallelKeepsInputOrder ==
  IsTraversal /\ pc = "joined" =>
    /\ (\A i \in 1..op.n : bst[i].kind = "resolved") =>
         outcome = Resolve([i \in 1..op.n |-> bst[i].value])
    /\ outcome.kind = "resolve" =>
         \A i \in 1..op.n : bst[i].kind = "resolved"

C15_Witness ==
  /\ op.kind = "all"
  /\ op.n = MaxElems
  /\ Len(SettleOrder) = MaxElems
  /\ SettleOrder[1] = MaxElems
  /\ outcome = Resolve([i \in 1..op.n |-> bst[i].value])

\* C16: race starts every branch and settles as the branch that settles
\* first does (its value, or its error); later settlements change nothing.
C16_RaceFirstSettlementWins ==
  op.kind = "race" /\ pc # "idle" =>
    /\ \A i \in 1..op.n : EffStarted(i)
    /\ IF SettleOrder = <<>> THEN outcome = Pending
       ELSE outcome = Settle(Await(bst[SettleOrder[1]]))

C16_Witness ==
  /\ op.kind = "race"
  /\ op.n = MaxElems
  /\ Len(SettleOrder) = MaxElems
  /\ bst[SettleOrder[1]].kind = "rejected"
  /\ bst[SettleOrder[MaxElems]].kind = "resolved"
  /\ outcome = Reject(bst[SettleOrder[1]].error)

\* the positions in SettleOrder of the branches that succeeded
Successes == {k \in DOMAIN SettleOrder : bst[SettleOrder[k]].kind = "resolved"}

\* C17: any starts every branch and resolves with the value of the first
\* branch to succeed, also when others failed before it; it rejects only
\* when every branch has failed.
C17_AnyFirstSuccessWins ==
  op.kind = "any" /\ pc # "idle" =>
    /\ \A i \in 1..op.n : EffStarted(i)
    /\ IF Successes # {}
       THEN outcome = Resolve(bst[SettleOrder[
              CHOOSE k \in Successes : \A l \in Successes : k <= l]].value)
       ELSE IF \A i \in 1..op.n : bst[i].kind = "rejected"
            THEN outcome =
                   Reject(AggregateError([i \in 1..op.n |-> bst[i].error]))
            ELSE outcome = Pending

C17_Witness ==
  /\ op.kind = "any"
  /\ op.n = MaxElems
  /\ Len(SettleOrder) > 1
  /\ bst[SettleOrder[1]].kind = "rejected"
  /\ outcome.kind = "resolve"

\* branch i has come to its end
Completed(i) == i \in DOMAIN bst /\ Settled(bst[i])

\* C18: race, any and timeout start every branch and cancel none: each
\* branch, also one that did not decide the result, runs to its end after
\* the combined promise has settled.
C18_LosersRunToCompletion ==
  /\ [](op.kind \in {"race", "any", "timeout"} /\ pc # "idle" =>
          \A i \in 1..op.n : EffStarted(i) /\ bst[i] # Unstarted)
  /\ \A i \in 1..MaxElems :
       (op.kind \in {"race", "any", "timeout"} /\ pc # "idle" /\ i <= op.n)
         ~> Completed(i)

C18_Witness ==
  /\ op.kind = "timeout"
  /\ SettleOrder = <<2, 1>>
  /\ outcome.kind = "reject"
  /\ Completed(1)

\* C19: e.timeout(d) is a race of e with a branch that rejects with
\* TimeoutError after the delay: when e settles first the result is e's
\* outcome, when the delay elapses first the run rejects with a
\* TimeoutError whose field timeout is d.
C19_TimeoutRacesDelay ==
  op.kind = "timeout" /\ pc # "idle" =>
    /\ EffStarted(1) /\ EffStarted(2)
    /\ IF SettleOrder = <<>> THEN outcome = Pending
       ELSE IF SettleOrder[1] = 1 THEN outcome = Settle(Await(bst[1]))
       ELSE /\ outcome.kind = "reject"
            /\ outcome.error.name = "TimeoutError"
            /\ outcome.error.timeout = op.ms

C19_Witness ==
  /\ op.kind = "timeout"
  /\ op.ms = MaxDelay
  /\ SettleOrder = <<2>>
  /\ bst[1].kind = "running"
  /\ outcome = Reject(TimeoutError(MaxDelay))

\* the calls of release / use in the trace
CallsTo(i) == SelectSeq(trace, LAMBDA t : t.what = "fn" /\ t.i = i)

\* how the use came out: what the function raised, or how its effect settled
UseOutcome ==
  IF FnRaised(2) THEN Settle(CallsTo(2)[1].out) ELSE Settle(Await(bst[2]))

\* acquire has succeeded and the function has moved on from its await
Acquired == bst[1].kind = "resolved" /\ (idx > 1 \/ pc = "done")

\* C20: when acquire succeeds with r, release(r) runs exactly once, and
\* only once the use has finished, whether the effect of use succeeds, fails
\* or the use function raises; when release succeeds the outcome is that of
\* the use.
C20_BracketReleasesOnce ==
  op.kind = "bracket" =>
    /\ Len(CallsTo(3)) <= 1
    /\ \A k \in DOMAIN CallsTo(3) :
         /\ Acquired
         /\ CallsTo(3)[k].arg = bst[1].value
         /\ Len(CallsTo(2)) = 1
         /\ FnRaised(2) \/ Settled(bst[2])
    /\ (Acquired /\ pc = "done") => Len(CallsTo(3)) = 1
    /\ (pc = "done" /\ bst[3].kind = "resolved") => outcome = UseOutcome

C20_Witness ==
  /\ op.kind = "bracket"
  /\ FnRaised(2)
  /\ bst[3].kind = "resolved"
  /\ pc = "done"
  /\ outcome = Reject(CallsTo(2)[1].out.error)

\* C21: when acquire fails with x, neither use nor release is ever invoked
\* and the run rejects with x.
C21_AcquireFailureSkipsUseAndRelease ==
  (op.kind = "bracket" /\ bst[1].kind = "rejected") =>
    /\ CallsTo(2) = <<>> /\ CallsTo(3) = <<>>
    /\ bst[2] = Unstarted /\ bst[3] = Unstarted
    /\ outcome \in {Pending, Reject(bst[1].error)}
    /\ pc = "done" => outcome = Reject(bst[1].error)

C21_Witness ==
  /\ op.kind = "bracket"
  /\ SettleOrder = <<1>>
  /\ bst[1].kind = "rejected"
  /\ pc = "done"
  /\ outcome = Reject(bst[1].error)

\* the errors the steps of this run have failed with: rejections of the
\* branches and what the functions raised
StepErrors ==
  {bst[i].error : i \in {j \in DOMAIN bst : bst[j].kind = "rejected"}}
    \cup {trace[k].out.error :
            k \in {l \in DOMAIN trace :
                     trace[l].what = "fn" /\ trace[l].out.kind = "throw"}}

\* C22: the error a run rejects with is the very error of a failing step, or
\* the TimeoutError of timeout; no combinator wraps, aggregates or replaces
\* it.
C22_RejectsWithStepErrorUnchanged ==
  (outcome.kind = "reject" /\ StepErrors # {}) =>
    \/ outcome.error \in StepErrors
    \/ op.kind = "timeout" /\ outcome.error = TimeoutError(op.ms)

\* C23: building an effect with a combinator invokes no user function and
\* starts no effect or timer; functions are first invoked after run has been
\* called on the effect.
C23_ConstructionRunsNothing ==
  pc = "idle" =>
    /\ trace = <<>>
    /\ outcome = Pending
    /\ \A i \in DOMAIN bst : bst[i] = Unstarted

C23_Witness ==
  /\ op.kind = "timeout"
  /\ pc = "idle"
  /\ bst = <<Unstarted, Unstarted>>
  /\ trace = <<>>

\* the effect a chain of flatMap is built around
RECURSIVE Innermost(_)
Innermost(eff) ==
  IF eff.tag = "FlatMap" THEN Innermost(eff.effect) ELSE eff

IsStep(eff) == eff.tag \in {"FromFunction", "FromPromise"}

\* C24: a description is reusable and not memoized: a run never changes the
\* description; every run starts from the whole description on an empty
\* stack, whatever the other runs of it have done, and invokes each step
\* function itself; so every run of a chain of incM over the same first
\* effect yields the value of that effect plus the length of the chain.
C24_DescriptionReusedNotMemoized ==
  /\ [][root' = root /\ env' = env]_vars
  /\ [][\A r \in Runs :
          (status[r] = "idle" /\ status'[r] # "idle") =>
            current'[r] = root[r] /\ Stack(r) = <<>>]_vars
  /\ [][\A r \in Runs :
          (Running(r) /\ IsStep(current[r])) =>
            /\ ev'.run = r
            /\ Len(ev'.calls) >= 1
            /\ ev'.calls[1].role = current[r].tag
            /\ ev'.calls[1].arg = env[r]]_vars
  /\ [](\A r \in Runs :
          status[r] = "resolved" =>
            IF IsStep(Innermost(root[r]))
            THEN result[r] - ChainLen(root[r]) \in Values
            ELSE result[r] = ChainLen(root[r]))

C24_Witness ==
  /\ IsStep(Innermost(root[1]))
  /\ root[2] = flatMap(root[1], IncM)
  /\ status[1] = "resolved"
  /\ status[2] = "resolved"
  /\ result[2] = result[1] + 1

\* the starts of branch i in the trace
StartsOf(i) == SelectSeq(trace, LAMBDA t : t = StartEff(i))

\* how the promise p of a branch settles the run when passed on unchanged
OutcomeOf(p) ==
  IF p.kind = "rejected" THEN Reject(p.error) ELSE Resolve(p.value)

\* C25: a.finally(b) runs b exactly once, after a has settled, both when a
\* succeeds and when a fails; when b succeeds the run settles as a did, with
\* a's value or a's error.
C25_FinallyRunsOnceAfterSettled ==
  op.kind = "finally" =>
    /\ Len(StartsOf(2)) <= 1
    /\ EffStarted(2) => Settled(bst[1])
    /\ Settled(bst[1]) /\ (idx > 1 \/ pc = "done") => Len(StartsOf(2)) = 1
    /\ pc = "done" /\ bst[2].kind = "resolved" => outcome = OutcomeOf(bst[1])

\* a failed with an error, b ran afterwards and succeeded, the run rejected
\* with a's error
C25_Witness ==
  /\ op.kind = "finally"
  /\ SettleOrder = <<1, 2>>
  /\ bst[1].kind = "rejected"
  /\ bst[2].kind = "resolved"
  /\ outcome = Reject(bst[1].error)

\* C26: a.tap(f): when a succeeds with v, f(v) is called once and its effect
\* run once, after a, and the run resolves to v whatever the effect of f(v)
\* resolved with; when that effect fails with x the run rejects with x; when
\* a fails f is never called.
C26_TapKeepsValue ==
  op.kind = "tap" =>
    /\ Len(CallsTo(2)) <= 1 /\ Len(StartsOf(2)) <= 1
    /\ \A k \in DOMAIN CallsTo(2) :
         bst[1].kind = "resolved" /\ CallsTo(2)[k].arg = bst[1].value
    /\ EffStarted(2) => bst[1].kind = "resolved"
    /\ bst[1].kind = "rejected" => CallsTo(2) = <<>> /\ bst[2] = Unstarted
    /\ pc = "done" /\ bst[1].kind = "resolved" =>
         /\ Len(CallsTo(2)) = 1
         /\ ~FnRaised(2) => Len(StartsOf(2)) = 1
         /\ bst[2].kind = "resolved" => outcome = Resolve(bst[1].value)
         /\ bst[2].kind = "rejected" => outcome = Reject(bst[2].error)

\* a succeeded, the effect of f(v) resolved with another value, and the run
\* resolved to a's value
C26_Witness ==
  /\ op.kind = "tap"
  /\ SettleOrder = <<1, 2>>
  /\ bst[1].kind = "resolved" /\ bst[2].kind = "resolved"
  /\ bst[2].value # bst[1].value
  /\ outcome = Resolve(bst[1].value)

\* C28: a.zip(b) and a.zipWith(b, fn) are sequential: b is started only
\* after a has resolved and never when a fails; when both succeed with va
\* and vb, zip resolves to the pair <<va, vb>> and zipWith calls fn(va, vb)
\* once and settles with what fn did.
C28_ZipIsSequential ==
  op.kind \in {"zip", "zipWith"} =>
    /\ EffStarted(2) => bst[1].kind = "resolved"
    /\ bst[1].kind = "rejected" => bst[2] = Unstarted /\ CallsTo(3) = <<>>
    /\ \A k \in DOMAIN CallsTo(3) :
         /\ bst[1].kind = "resolved" /\ bst[2].kind = "resolved"
         /\ CallsTo(3)[k].arg = <<bst[1].value, bst[2].value>>
    /\ pc = "done" /\ bst[1].kind = "resolved" /\ bst[2].kind = "resolved" =>
         /\ Len(CallsTo(3)) = 1
         /\ outcome = Settle(CallsTo(3)[1].out)
         /\ op.kind = "zip" =>
              outcome = Resolve(<<bst[1].value, bst[2].value>>)

\* a resolved, then b resolved, and zip resolved to the pair
C28_Witness ==
  /\ op.kind = "zip"
  /\ SettleOrder = <<1, 2>>
  /\ Len(StartsOf(2)) = 1
  /\ bst[1].kind = "resolved" /\ bst[2].kind = "resolved"
  /\ outcome = Resolve(<<bst[1].value, bst[2].value>>)

\* C27: props(object) starts the effect of every key, also when one of them
\* fails; when all succeed it resolves to a record with exactly the keys of
\* the object, each key holding the value of its own effect whatever the
\* order of completion; when one fails it rejects with that error.
C27_PropsKeepsKeys ==
  (op.kind = "props" /\ pc # "idle") =>
    /\ \A i \in 1..op.n : Len(StartsOf(i)) = 1 /\ bst[i] # Unstarted
    /\ outcome.kind = "resolve" =>
         /\ \A i \in 1..op.n : bst[i].kind = "resolved"
         /\ DOMAIN outcome.value = {KeyOf(i) : i \in 1..op.n}
         /\ \A i \in 1..op.n : outcome.value[KeyOf(i)] = bst[i].value
    /\ (\A i \in 1..op.n : bst[i].kind = "resolved") =>
         outcome.kind = "resolve"
    /\ (\E i \in 1..op.n : bst[i].kind = "rejected") =>
         /\ outcome.kind = "reject"
         /\ \E i \in 1..op.n :
              bst[i].kind = "rejected" /\ outcome.error = bst[i].error

\* three keys whose effects completed in reverse order
C27_Witness ==
  /\ op.kind = "props"
  /\ op.n = 3
  /\ SettleOrder = <<3, 2, 1>>
  /\ outcome.kind = "resolve"
  /\ outcome.value[KeyOf(1)] = bst[1].value

\* every call of a function, in order
FnCalls == SelectSeq(trace, LAMBDA t : t.what = "fn")

\* C29: reduce(values, init, fn) is the left fold: fn is called once per
\* element in input order, each call with the accumulator the previous
\* element's effect produced (init for the first); the first failure rejects
\* with its error and fn is not called for later elements; the result is the
\* value of the last effect, and init, without a call, for an empty list.
C29_ReduceFoldsLeft ==
  op.kind = "reduce" =>
    /\ \A k \in DOMAIN FnCalls :
         /\ FnCalls[k].i = k
         /\ k > 1 => bst[k - 1].kind = "resolved"
         /\ FnCalls[k].arg =
              <<IF k = 1 THEN initialValue ELSE bst[k - 1].value, k>>
    /\ \A i \in 1..op.n :
         (bst[i].kind = "rejected" \/ FnRaised(i)) =>
           /\ Len(FnCalls) = i
           /\ \A j \in (i + 1)..op.n : bst[j] = Unstarted
           /\ pc = "done" =>
                outcome = IF FnRaised(i) THEN Settle(FnCalls[i].out)
                          ELSE Reject(bst[i].error)
    /\ outcome.kind = "resolve" =>
         /\ Len(FnCalls) = op.n
         /\ \A i \in 1..op.n : bst[i].kind = "resolved"
         /\ outcome.value = IF op.n = 0 THEN initialValue
                            ELSE bst[op.n].value
    /\ (op.n = 0 /\ pc = "done") =>
         outcome = Resolve(initialValue) /\ trace = <<>>

\* a fold over all the elements that ran to the end
C29_Witness ==
  /\ op.kind = "reduce"
  /\ op.n = MaxElems
  /\ Len(FnCalls) = MaxElems
  /\ outcome.kind = "resolve"
  /\ outcome.value = bst[MaxElems].value
  /\ FnCalls[2].arg = <<bst[1].value, 2>>

\* C30: the continuation stack of a run is empty when the run starts, grows
\* by exactly one frame on each FlatMap or Catch transition, which makes the
\* node's inner effect the current node and calls no function, and is empty
\* whenever the run resolves or rejects with an error for which handleError
\* found no Catch frame.
C30_StackGrowsByOneAndDrains ==
  [][\A r \in Runs :
       /\ (status[r] = "idle" /\ status'[r] = "running") =>
            Stack(r) = <<>> /\ stack' = stack
       /\ (Running(r) /\ current[r].tag \in {"FlatMap", "Catch"}
             /\ vars' # vars) =>
            /\ stack'[StackSlot(r)] = Append(Stack(r), Frame(current[r], r))
            /\ current'[r] = current[r].effect
            /\ status'[r] = "running"
            /\ ev'.calls = <<>>
       /\ (status[r] # "resolved" /\ status'[r] = "resolved") =>
            stack'[StackSlot(r)] = <<>>
       /\ (status[r] # "rejected" /\ status'[r] = "rejected"
             /\ ev'.calls = <<>>) =>
            stack'[StackSlot(r)] = <<>>
    ]_vars

\* a run that pushed two FlatMap frames and rejected with an error that
\* found no Catch frame: both frames were popped and the stack is empty
C30_Witness ==
  /\ status[1] = "rejected"
  /\ root[1].tag = "FlatMap"
  /\ root[1].effect.tag = "FlatMap"
  /\ ev.kind = "Failure"
  /\ ev.calls = <<>>
  /\ Len(ev.popped) = 2
  /\ Stack(1) = <<>>

\* the last transition invoked a Catch handler, which returned a Failure node
HandlerReturnedFailure(e) ==
  /\ e.kind = "Failure"
  /\ e.calls # <<>>
  /\ e.calls[1].role = "Catch"
  /\ e.calls[1].comp.kind = "return"
  /\ e.calls[1].comp.result.tag = "Failure"

\* C31: when a Catch handler invoked with e1 returns a Failure(e2) node, e1
\* is dropped: the current node is Failure(e2) alone, and the next step hands
\* e2, and nothing else, to the next enclosing Catch frame, or rejects the
\* run with e2 when there is none.
C31_HandlerErrorReplacesError ==
  [][\A r \in Runs :
       /\ (ev'.run = r /\ vars' # vars /\ HandlerReturnedFailure(ev')) =>
            /\ current'[r] = ev'.calls[1].comp.result
            /\ status'[r] = "running"
            /\ thread' = r
       /\ (ev.run = r /\ HandlerReturnedFailure(ev) /\ vars' # vars) =>
            /\ ev'.kind = "Failure"
            /\ DeliveredAsError(r, ev.calls[1].comp.result.error)
    ]_vars

\* a handler invoked with one error has returned a Failure with another,
\* below an enclosing Catch frame
C31_Witness ==
  /\ HandlerReturnedFailure(ev)
  /\ ev.calls[1].arg # ev.calls[1].comp.result.error
  /\ current[1] = ev.calls[1].comp.result
  /\ HasTag(Stack(1), "Catch")

\* C32: whenever the current node of a run is Done the continuation stack is
\* empty, and a Done node appears only in a step on the success path in
\* which the value found no FlatMap frame on the stack: no continuation and
\* no handler is invoked in that step.
C32_DoneOnlyOnEmptyStack ==
  /\ [](\A r \in Runs :
          (status[r] = "running" /\ current[r].tag = "Done") =>
            Stack(r) = <<>>)
  /\ [][\A r \in Runs :
          (current[r].tag # "Done" /\ current'[r].tag = "Done") =>
            /\ ~HasTag(Stack(r), "FlatMap")
            /\ OnSuccessPath(ev') /\ ev'.run = r
            /\ Roles(ev'.calls) \cap {"FlatMap", "Catch"} = {}
            /\ ev'.popped = PoppedDownTo(Stack(r), 1)
            /\ stack'[StackSlot(r)] = <<>>
       ]_vars

\* a value passed over two Catch frames and became the Done node
C32_Witness ==
  /\ status[1] = "running"
  /\ current[1].tag = "Done"
  /\ Len(ev.popped) = 2
  /\ ev.popped[1].tag = "Catch"
  /\ Stack(1) = <<>>

\* the last transition invoked a Catch handler, which returned a Success node
HandlerRecovered(e) ==
  /\ e.kind = "Failure"
  /\ e.calls # <<>>
  /\ e.calls[1].role = "Catch"
  /\ e.calls[1].comp.kind = "return"
  /\ e.calls[1].comp.result.tag = "Success"

\* C33: when a Catch handler recovers with Success(w), the FlatMap frames
\* above its frame have been popped without being invoked and are gone from
\* the stack, which is left as it was below the Catch frame; the next step
\* hands w to the topmost FlatMap frame below (or ends with Done(w)); and a
\* continuation is only ever invoked as the topmost FlatMap frame of the
\* stack, so the frames below follow in stack order and a discarded frame is
\* never invoked.
C33_RecoveryResumesBelowCatch ==
  [][\A r \in Runs :
       /\ (ev'.run = r /\ vars' # vars /\ AtError(r)
             /\ HandlerRecovered(ev')) =>
            LET s == Stack(r)
                i == TopIndex(s, "Catch") IN
            /\ HasTag(s, "Catch")
            /\ Len(ev'.calls) = 1
            /\ ev'.popped = PoppedDownTo(s, i)
            /\ stack'[StackSlot(r)] = Below(s, i)
            /\ current'[r] = ev'.calls[1].comp.result
       /\ (ev.run = r /\ HandlerRecovered(ev) /\ vars' # vars) =>
            ContinuesAsValue(r, ev.calls[1].comp.result.value)
       /\ (ev'.run = r /\ vars' # vars) =>
            \A k \in CallsOf(ev'.calls, "FlatMap") :
              LET s == Stack(r) IN
              /\ HasTag(s, "FlatMap")
              /\ ev'.calls[k].fn = s[TopIndex(s, "FlatMap")].fn
              /\ stack'[StackSlot(r)] = Below(s, TopIndex(s, "FlatMap"))
    ]_vars

\* flatMap(catch(flatMap(e, f1), h2), f3): h2 has recovered after f1's frame
\* was discarded, and f3 has been invoked with the handler's value
C33_Witness ==
  /\ root[1].tag = "FlatMap"
  /\ root[1].effect.tag = "Catch"
  /\ root[1].effect.effect.tag = "FlatMap"
  /\ rescued[1][root[1].effect.fn] = 1
  /\ ev.kind = "Success"
  /\ Len(ev.calls) = 1
  /\ ev.calls[1].role = "FlatMap"
  /\ ev.calls[1].fn = root[1].fn
  /\ ev.popped = <<Frame(root[1], 1)>>

\* the last transition of run r invoked the continuation fn, which failed:
\* it raised or returned a Failure node
ContinuationFailed(e, r, fn) ==
  /\ e.run = r
  /\ e.calls # <<>>
  /\ LastCall(e).role = "FlatMap"
  /\ LastCall(e).fn = fn
  /\ \/ LastCall(e).comp.kind = "throw"
     \/ LastCall(e).comp.result.tag = "Failure"

FailureOf(e) ==
  IF LastCall(e).comp.kind = "throw" THEN LastCall(e).comp.error
  ELSE LastCall(e).comp.result.error

\* a.catch(h).flatMap(f) and a.flatMap(f).catch(h)
CatchThenFlatMap(r) == root[r].tag = "FlatMap" /\ root[r].effect.tag = "Catch"
FlatMapThenCatch(r) == root[r].tag = "Catch" /\ root[r].effect.tag = "FlatMap"

\* C34: a Catch handler guards only the effect it wraps.  In
\* a.catch(h).flatMap(f) a failure of f finds h's frame already popped: no
\* Catch frame is on the stack, no handler is invoked and the run rejects
\* with f's error.  In a.flatMap(f).catch(h) the same failure of f is handed
\* to h.
C34_CatchGuardsOnlyItsEffect ==
  [][\A r \in Runs :
       /\ (CatchThenFlatMap(r) /\ vars' # vars
             /\ ContinuationFailed(ev', r, root[r].fn)) =>
            /\ current'[r] = Failure(FailureOf(ev'))
            /\ ~HasTag(stack'[StackSlot(r)], "Catch")
       /\ (CatchThenFlatMap(r) /\ vars' # vars
             /\ ContinuationFailed(ev, r, root[r].fn)) =>
            /\ status'[r] = "rejected"
            /\ result'[r] = FailureOf(ev)
            /\ ev'.calls = <<>>
            /\ rescued' = rescued
       /\ (FlatMapThenCatch(r) /\ vars' # vars
             /\ ContinuationFailed(ev, r, root[r].effect.fn)) =>
            /\ Len(ev'.calls) = 1
            /\ ev'.calls[1].role = "Catch"
            /\ ev'.calls[1].fn = root[r].fn
            /\ ev'.calls[1].arg = FailureOf(ev)
    ]_vars

\* success(v).catch(h).flatMap(f): f failed and the run rejected with its
\* error without h being invoked
C34_Witness ==
  /\ CatchThenFlatMap(1)
  /\ root[1].effect.effect.tag = "Success"
  /\ status[1] = "rejected"
  /\ ev.kind = "Failure"
  /\ ev.calls = <<>>
  /\ rescued[1][root[1].effect.fn] = 0

\* how run r of the Fiber settled, as a completion
FiberOutcome(r) ==
  IF status[r] = "rejected" THEN Throw(result[r]) ELSE Return(result[r])

\* C35 (as claimed): a description evaluated by the Fiber interpreter and
\* the same composition evaluated by the promise-based combinators settle
\* alike, with the same value or the same error, after the same sequence of
\* invocations of the user's functions.
C35_FiberAgreesWithPromiseRun ==
  status[1] \in {"resolved", "rejected"} =>
    /\ FiberOutcome(1) = PromiseRun(root[1], env[1]).comp
    /\ trace = PromiseRun(root[1], env[1]).calls

\* a Catch handler was invoked in the run and raised
HandlerHasRaised ==
  \E k \in DOMAIN trace :
    trace[k].role = "Catch" /\ trace[k].comp.kind = "throw"

\* the two evaluations agree in every run in which no Catch handler raises
AgreesUnlessHandlerRaised ==
  (status[1] \in {"resolved", "rejected"} /\ ~HandlerHasRaised) =>
    /\ FiberOutcome(1) = PromiseRun(root[1], env[1]).comp
    /\ trace = PromiseRun(root[1], env[1]).calls

\* the frames of a stack without the run that pushed them
Unowned(s) == [i \in DOMAIN s |-> [tag |-> s[i].tag, fn |-> s[i].fn]]

\* the invocations logged for run r, the run's own environment written 0
LogOf(r) ==
  LET log == IF r = 1 THEN trace ELSE acc IN
  [k \in DOMAIN log |-> [log[k] EXCEPT !.arg = IF @ = env[r] THEN 0 ELSE @]]

BothSettled ==
  status[1] \in {"resolved", "rejected"} /\ status[2] \in {"resolved", "rejected"}

\* both interpreters are in their loop at the same node after the same
\* invocations
AtSamePoint ==
  /\ status[1] = "running" /\ status[2] = "running"
  /\ current[1] = current[2]
  /\ LogOf(1) = LogOf(2)

\* C36 (as claimed): the fused interpreter and the interpreter of Fiber.ts
\* settle alike after the same invocations in the same order, and their
\* stacks are equal whenever both are at the same current node.
C36_FusedEqualsUnfused ==
  /\ BothSettled =>
       FiberOutcome(1) = FiberOutcome(2) /\ LogOf(1) = LogOf(2)
  /\ AtSamePoint => Unowned(Stack(1)) = Unowned(Stack(2))

\* C36 (amended): the two settle alike after the same invocations in the
\* same order; at the same current node their stacks are equal, except at a
\* Failure node, where the stack of Fiber.ts may hold one more frame on top:
\* the FlatMap frame of the node the other build fused, whose step failed.
C36_FusedEqualsUnfusedUpToDiscardedFrame ==
  /\ BothSettled =>
       FiberOutcome(1) = FiberOutcome(2) /\ LogOf(1) = LogOf(2)
  /\ AtSamePoint =>
       \/ Unowned(Stack(1)) = Unowned(Stack(2))
       \/ /\ current[1].tag = "Failure"
          /\ Stack(1) # <<>>
          /\ Top(Stack(1)).tag = "FlatMap"
          /\ Unowned(Rest(Stack(1))) = Unowned(Stack(2))

\* a FlatMap over a FromPromise: both builds have awaited the promise,
\* invoked the continuation and resolved, the fused one without a frame
C36_Witness ==
  /\ root[1].tag = "FlatMap"
  /\ root[1].effect.tag = "FromPromise"
  /\ status[1] = "resolved" /\ status[2] = "resolved"
  /\ result[1] = result[2]
  /\ Len(trace) >= 2
  /\ LogOf(1) = LogOf(2)

SettledRun(r) == status[r] \in {"resolved", "rejected"}

\* C37: with functions that return finite descriptions and promises that
\* settle, a run that has been started eventually settles, and it settles
\* once: a settled run takes no further step and keeps its result.
C37_RunSettlesOnce ==
  /\ (status[1] \in {"running", "suspended"}) ~> SettledRun(1)
  /\ [][SettledRun(1) =>
          /\ status'[1] = status[1]
          /\ result'[1] = result[1]
          /\ current'[1] = current[1]]_vars
  /\ [](SettledRun(1) => thread = 0 /\ ~ENABLED Step(1))

\* a run that was suspended at a promise inside two frames has resolved
C37_Witness ==
  /\ status[1] = "resolved"
  /\ root[1].tag = "FlatMap"
  /\ root[1].effect.tag = "Catch"
  /\ root[1].effect.effect.tag = "FromPromise"
  /\ ev.kind = "Done"

\* C38: in bracket(acquire, release, use), when acquire succeeds and the
\* effect of release fails with y, the run rejects with y, both when the use
\* succeeded (its value is lost) and when the use failed with another error
\* x (y replaces x).
C38_ReleaseFailureReplacesUseOutcome ==
  (op.kind = "bracket" /\ bst[1].kind = "resolved"
     /\ bst[3].kind = "rejected") =>
    /\ outcome \in {Pending, Reject(bst[3].error)}
    /\ pc = "done" => outcome = Reject(bst[3].error)
    /\ pc # "done" => (pc = "await" /\ idx = 3)

C38_Witness ==
  /\ op.kind = "bracket"
  /\ bst[1].kind = "resolved"
  /\ bst[2].kind = "rejected"
  /\ bst[3].kind = "rejected"
  /\ bst[3].error # bst[2].error
  /\ SettleOrder = <<1, 2, 3>>
  /\ pc = "done"
  /\ outcome = Reject(bst[3].error)

\* the same with a use that succeeded
C38_WitnessUseSucceeded ==
  /\ op.kind = "bracket"
  /\ bst[2].kind = "resolved"
  /\ bst[3].kind = "rejected"
  /\ pc = "done"
  /\ outcome = Reject(bst[3].error)

\* C39: a Fiber on which a run has settled, by success, by an unhandled
\* Error or by a handler that raised, has an empty stack, so that a later run
\* on the same instance never pops or invokes a frame of the earlier run.
C39_SettledFiberIsFresh ==
  /\ \A r \in Runs : SettledRun(r) => Stack(r) = <<>>
  /\ \A k \in DOMAIN ev.popped : ev.popped[k].owner # 0

\* the first half alone: the stack at the moment a run settles
C39_StackEmptyWhenSettled ==
  \A r \in Runs : SettledRun(r) => Stack(r) = <<>>

\* without a handler that raised, the settled Fiber is like a fresh one
C39_FreshUnlessHandlerRaised ==
  \/ HandlerHasRaised
  \/ /\ \A r \in Runs : SettledRun(r) => Stack(r) = <<>>
     /\ \A k \in DOMAIN ev.popped : ev.popped[k].owner # 0

\* a later run has popped a frame that an earlier run left on the stack
C39_LeftoverFramePopped ==
  /\ ev.run = 1
  /\ \E k \in DOMAIN ev.popped : ev.popped[k].owner = 0
  /\ ev.calls # <<>>

\* C40: when the function given to RIO.map raises for element i, the run
\* rejects with what it raised, the function is never invoked for a later
\* element (and no effect is started for element i or later), and the
\* effects started for the elements before i still run until they settle.
C40_MapFnFaultAborts ==
  /\ [](\A i \in 1..MaxElems :
          (op.kind = "map" /\ FnRaised(i)) =>
            /\ \A k \in DOMAIN CallsTo(i) :
                 outcome = Reject(CallsTo(i)[k].out.error)
            /\ Len(CallsTo(i)) = 1
            /\ \A j \in DOMAIN bst :
                 /\ j < i => EffStarted(j) /\ bst[j] # Unstarted
                 /\ j >= i => ~EffStarted(j) /\ bst[j] = Unstarted
                 /\ j > i => ~FnCalled(j))
  /\ \A i \in 1..MaxElems :
       (op.kind = "map" /\ FnRaised(i)) ~>
         (\A j \in DOMAIN bst : j < i => Settled(bst[j]))

C40_Witness ==
  /\ op.kind = "map"
  /\ op.n >= 3
  /\ FnRaised(2)
  /\ bst[1].kind = "resolved"
  /\ ~FnCalled(3)
  /\ \E x \in ErrorsOf(2) : outcome = Reject(x)

====
